---- MODULE Spec2Model ----
(***************************************************************************)
(* A model of the Amazon product scraper: the SessionPool (a FIFO queue of *)
(* warmed AmazonScraper objects), AmazonScraper.get_product_data (the      *)
(* ordered request sequence of one fetch) and the CSRF-token scan of the   *)
(* product page.                                                           *)
(*                                                                         *)
(* Text is a sequence of symbols.  A symbol is one character the scan      *)
(* looks at ("{", "}", the double quote, the backslash, ":", ","), or a    *)
(* run of characters the scan treats alike:                                *)
(*   "ID"   id="nav-global-location-data-modal-action"  (the first anchor) *)
(*   "DMS"  data-a-modal='       "DMD"  data-a-modal="                     *)
(*   "Q"    &quot;               "H"    ajaxHeaders                        *)
(*   "Z"    anti-csrftoken-a2z   "1"    a run of digits                    *)
(*   "x", "t1", "t2"  runs of other plain characters                       *)
(* The two data-a-modal anchors have the same length (14 characters), so   *)
(* both are one symbol and json_start is the position after the symbol.    *)
(***************************************************************************)
EXTENDS Integers, Sequences, FiniteSets, TLC

\* ---------------------------------------------------------------- bounds
\* Longest text, in symbols, that follows the data-a-modal anchor in the
\* exhaustively enumerated product pages.
MaxScanLen == 4
\* Threads that use the pool.
NumCallers == 2
\* Handshakes of initialize_pool that the site lets succeed.
MaxWarm == 2
\* Handshakes of the timeout fallback that the site lets succeed.
MaxFallback == 1
\* tls_client sessions one scraper creates (a scraper that never completes
\* its handshake creates one per get_product_data call).
MaxSessionObjects == 2

\* Characters of one price text (the whole part, the fraction part, the
\* delivery price).
MoneyDigits == 2

\* Words before the clock range in the delivery texts of relative keywords.
MaxKeywords == 2

\* Pairs of one dict and items of one list in the records that are
\* flattened.
MaxKeys == 2
MaxItems == 1
\* Identifiers on the command line of main.
MaxArgs == 3
\* Lines of proxies.txt.
MaxProxyLines == 2
\* Extractors of parse_product_details whose markup one product page holds.
MaxMarked == 3

\* ------------------------------------------------------ program constants
\* initialize_pool submits this many _initialize_single_session tasks.
PoolSize == 5
\* The success status of a response.
StatusOk == 200
\* The default test_asin of initialize_session.
TestAsin == "B09X7CRKRZ"

Callers == 1..NumCallers
MaxScrapers == MaxWarm + MaxFallback
Scrapers == 1..MaxScrapers

\* ------------------------------------------------------------------ state
VARIABLES
    sessions,    \* SessionPool.sessions: the queue of idle scrapers
    init_count,  \* _initialize_single_session tasks that have run
    made,        \* scrapers constructed and kept (1..made)
    scrapers,    \* the AmazonScraper objects, by identity
    pc,          \* where each thread is
    held,        \* the scraper a thread holds (0: none)
    via,         \* how get_session answered: "queue" or "fallback"
    call,        \* the locals of each thread's get_product_data call
    env,         \* what the process reads of its surroundings
    batch        \* the locals of main

vars == <<sessions, init_count, made, scrapers, pc, held, via, call, env,
          batch>>

\* ------------------------------------------------------- Python values
\* None, a str (a sequence of symbols), a number, a dict (a sequence of
\* <<key, value>> pairs, the last pair of a key being its value), and the
\* marker of a raised exception.  All are records over the same fields.
None == [k |-> "None", v |-> <<>>]
Str(s) == [k |-> "str", v |-> s]
Num == [k |-> "num", v |-> <<>>]
Dict(pairs) == [k |-> "dict", v |-> pairs]
Raised == [k |-> "raise", v |-> <<>>]

\* Python truthiness of a value: None, "" and {} are falsy.
Truthy(val) == /\ val.k \in {"str", "num", "dict"}
               /\ (val.k \in {"str", "dict"} => val.v # <<>>)

\* ------------------------------------------------------------ str methods
\* html[i] with Python's 0-based index.
At(html, i) == html[i + 1]

\* html[a:b]
Slice(html, a, b) == IF b <= a THEN <<>> ELSE [i \in 1..(b - a) |-> html[a + i]]

\* html.find(sym, start): the least index >= start holding sym, or -1.
Find(html, sym, start) ==
    LET hits == {i \in start..(Len(html) - 1) : At(html, i) = sym}
    IN IF hits = {} THEN -1 ELSE CHOOSE i \in hits : \A j \in hits : i <= j

\* html.find('data-a-modal="{', start): the anchor followed by a brace.
FindDMDBrace(html, start) ==
    LET hits == {i \in start..(Len(html) - 2) :
                    At(html, i) = "DMD" /\ At(html, i + 1) = "{"}
    IN IF hits = {} THEN -1 ELSE CHOOSE i \in hits : \A j \in hits : i <= j

\* json_str.replace('&quot;', '"')
ReplaceQuot(s) == [i \in 1..Len(s) |-> IF s[i] = "Q" THEN "\"" ELSE s[i]]

\* ------------------------------------------------------------ token scan
\* The while loop of the scan: the value of json_end when the loop ends, by
\* a break or by reaching the end of html.
RECURSIVE ScanLoop(_, _, _, _, _)
ScanLoop(html, json_end, bracket_count, in_quotes, escape_next) ==
    IF ~(json_end < Len(html)) THEN json_end
    ELSE LET char == At(html, json_end) IN
      IF escape_next
        THEN ScanLoop(html, json_end + 1, bracket_count, in_quotes, FALSE)
      ELSE IF char = "\\"
        THEN ScanLoop(html, json_end + 1, bracket_count, in_quotes, TRUE)
      ELSE IF char = "\"" /\ ~in_quotes
        THEN IF bracket_count = 0
               THEN json_end
               ELSE ScanLoop(html, json_end + 1, bracket_count, TRUE, FALSE)
      ELSE IF char = "\"" /\ in_quotes
        THEN ScanLoop(html, json_end + 1, bracket_count, FALSE, FALSE)
      ELSE IF ~in_quotes
        THEN IF char = "{"
               THEN ScanLoop(html, json_end + 1, bracket_count + 1, in_quotes, FALSE)
             ELSE IF char = "}"
               THEN IF bracket_count - 1 = 0
                      THEN json_end + 1
                      ELSE ScanLoop(html, json_end + 1, bracket_count - 1,
                                    in_quotes, FALSE)
             ELSE ScanLoop(html, json_end + 1, bracket_count, in_quotes, FALSE)
      ELSE ScanLoop(html, json_end + 1, bracket_count, in_quotes, FALSE)

\* The two anchors: the position of the data-a-modal attribute found after
\* the modal element, or -1 when either is missing.
DataModalStart(html) ==
    LET modal_start == Find(html, "ID", 0) IN
    IF modal_start = -1 THEN -1
    ELSE LET single == Find(html, "DMS", modal_start) IN
         IF single # -1 THEN single ELSE FindDMDBrace(html, modal_start)

\* json_start and json_end of a text that holds both anchors.
JsonStart(html) == DataModalStart(html) + 1
JsonEnd(html) == ScanLoop(html, JsonStart(html), 0, FALSE, FALSE)

\* ------------------------------------------------------------ json.loads
\* json.loads on the symbols of the model: a value is a string, a number or
\* an object; inside a string a backslash must be followed by a quote or a
\* backslash; anything else, or text after the value, is a JSONDecodeError.
ParseFail == [ok |-> FALSE, val |-> None, pos |-> 0]

RECURSIVE StringBody(_, _, _)
StringBody(s, i, acc) ==
    IF i > Len(s) THEN ParseFail
    ELSE IF s[i] = "\"" THEN [ok |-> TRUE, val |-> Str(acc), pos |-> i + 1]
    ELSE IF s[i] = "\\"
      THEN IF i + 1 <= Len(s) /\ s[i + 1] \in {"\"", "\\"}
             THEN StringBody(s, i + 2, Append(acc, s[i + 1]))
             ELSE ParseFail
    ELSE StringBody(s, i + 1, Append(acc, s[i]))

RECURSIVE ParseValue(_, _)
RECURSIVE ParseMembers(_, _, _)
RECURSIVE AfterKey(_, _, _)
RECURSIVE AfterMember(_, _, _, _)
ParseValue(s, i) ==
    IF i > Len(s) THEN ParseFail
    ELSE IF s[i] = "\"" THEN StringBody(s, i + 1, <<>>)
    ELSE IF s[i] = "1" THEN [ok |-> TRUE, val |-> Num, pos |-> i + 1]
    ELSE IF s[i] = "{"
      THEN IF i + 1 <= Len(s) /\ s[i + 1] = "}"
             THEN [ok |-> TRUE, val |-> Dict(<<>>), pos |-> i + 2]
             ELSE ParseMembers(s, i + 1, <<>>)
    ELSE ParseFail

\* The members of an object from position i on, acc being those read.
ParseMembers(s, i, acc) ==
    IF ~(i <= Len(s) /\ s[i] = "\"") THEN ParseFail
    ELSE AfterKey(s, acc, StringBody(s, i + 1, <<>>))

\* ... once the key of a member is read: the colon and the value.
AfterKey(s, acc, key) ==
    IF ~key.ok \/ ~(key.pos <= Len(s) /\ s[key.pos] = ":") THEN ParseFail
    ELSE AfterMember(s, acc, key, ParseValue(s, key.pos + 1))

\* ... once the value of a member is read: the brace or the comma.
AfterMember(s, acc, key, val) ==
    IF ~val.ok \/ val.pos > Len(s) THEN ParseFail
    ELSE IF s[val.pos] = "}"
      THEN [ok |-> TRUE, val |-> Dict(Append(acc, <<key.val.v, val.val>>)),
            pos |-> val.pos + 1]
    ELSE IF s[val.pos] = ","
      THEN ParseMembers(s, val.pos + 1, Append(acc, <<key.val.v, val.val>>))
    ELSE ParseFail

\* The value parsed must be the whole text.
WholeText(s, r) == IF r.ok /\ r.pos = Len(s) + 1 THEN r.val ELSE Raised

JsonLoads(s) == WholeText(s, ParseValue(s, 1))

\* key in d, for a dict d
HasKey(d, key) == \E i \in 1..Len(d.v) : d.v[i][1] = key

\* d[key], for a dict d that has the key: a later pair replaces an earlier
GetKey(d, key) ==
    LET last == CHOOSE i \in 1..Len(d.v) :
                   /\ d.v[i][1] = key
                   /\ \A j \in 1..Len(d.v) : d.v[j][1] = key => j <= i
    IN d.v[last][2]

\* The lookup of modal_data['ajaxHeaders']['anti-csrftoken-a2z'] with the
\* two `in` tests before it and the slice csrf_token[:10] of the log line.
\* `in` on a number, a str index on a str, a slice of a number or a dict
\* raise TypeError.
TokenOf(modal_data) ==
    IF modal_data.k = "num" THEN Raised
    ELSE IF modal_data.k = "str"
      THEN IF \E i \in 1..Len(modal_data.v) : modal_data.v[i] = "H"
             THEN Raised ELSE None
    ELSE IF ~HasKey(modal_data, <<"H">>) THEN None
    ELSE LET headers == GetKey(modal_data, <<"H">>) IN
      IF headers.k = "num" THEN Raised
      ELSE IF headers.k = "str"
        THEN IF \E i \in 1..Len(headers.v) : headers.v[i] = "Z"
               THEN Raised ELSE None
      ELSE IF ~HasKey(headers, <<"Z">>) THEN None
      ELSE LET csrf_token == GetKey(headers, <<"Z">>) IN
        IF csrf_token.k = "str" THEN csrf_token ELSE Raised

\* json_str as first assigned: html[json_start:json_end].
JsonStr(html) == Slice(html, JsonStart(html), JsonEnd(html))

\* The local json_str when the scan that ended at json_end is over: None
\* when the function returned before assigning it.
JsonStrCut(html, json_start, json_end) ==
    IF json_start = 0 \/ json_end >= Len(html) THEN None
    ELSE Str(Slice(html, json_start, json_end))
JsonStrLocal(html) == JsonStrCut(html, JsonStart(html), JsonEnd(html))

\* The try block from json.loads on: the token, None, or an exception.
DecodeToken(modal_data) ==
    IF modal_data.k = "raise" THEN Raised ELSE TokenOf(modal_data)

\* The try block from the test that follows the loop on.
AfterScan(html, json_start, json_end) ==
    IF json_end >= Len(html) THEN None
    ELSE DecodeToken(JsonLoads(ReplaceQuot(Slice(html, json_start, json_end))))

\* The try block once the anchors are looked up.
AfterAnchors(html, data_modal_start) ==
    IF data_modal_start = -1 THEN None
    ELSE AfterScan(html, data_modal_start + 1,
                   ScanLoop(html, data_modal_start + 1, 0, FALSE, FALSE))

\* The body of the inner try block: the token, None, or an exception.
ExtractTry(html) == AfterAnchors(html, DataModalStart(html))

\* What the two except clauses make of the try block: both return None.
ExceptNone(r) == IF r.k = "raise" THEN None ELSE r

\* The try block without its except clauses: an exception leaves it.
ExtractCsrfTokenNoExcept(html) == ExtractTry(html)

\* The token extraction of _make_initial_product_page_request: the inner
\* try block with its two except clauses.
ExtractCsrfToken(html) == ExceptNone(ExtractTry(html))

\* ------------------------------------------------- modal token extraction
\* The modal fragment: "SC" is <script type="text/javascript">, "CT" is
\* CSRF_TOKEN : " (with its opening quote); the token runs to the next quote.
ExtractModalToken(html) ==
    LET script_start == Find(html, "SC", 0) IN
    IF script_start = -1 THEN None
    ELSE LET csrf_start == Find(html, "CT", script_start) IN
      IF csrf_start = -1 THEN None
      ELSE LET token_start == csrf_start + 1
               token_end == Find(html, "\"", token_start)
           IN IF token_end = -1 THEN None
              ELSE Str(Slice(html, token_start, token_end))

\* ------------------------------------------------------------ responses
\* What the site answers.  fault: the request raised instead of returning.
\* A product page: its status, its text (the part the token scan reads) and
\* whether its product markup yields details ("full") or nothing ("empty").
PageResponse(fault, status_code, text, details) ==
    [fault |-> fault, status_code |-> status_code, text |-> text,
     details |-> details]

\* A product page whose modal blob holds the token tok, single-quoted.
GoodText(tok) ==
    <<"ID", "DMS", "{", "\"", "H", "\"", ":", "{", "\"", "Z", "\"", ":",
      "\"", tok, "\"", "}", "}", "x">>

\* The same blob in a double-quoted attribute with &quot; entities.
EntityText(tok) ==
    <<"ID", "DMD", "{", "Q", "H", "Q", ":", "{", "Q", "Z", "Q", ":",
      "Q", tok, "Q", "}", "}", "\"">>

\* A modal fragment holding the token tok.
ModalText(tok) == <<"x", "SC", "x", "CT", tok, "\"", "x">>

\* ---------------------------------------------------- AmazonScraper methods
\* An AmazonScraper after __init__.  session is 0 for None and n for the
\* n-th tls_client.Session this scraper created; cookies is the jar of that
\* session (the sites it holds cookies of).
\* made_by records which code constructed the scraper.
\* proxies.txt is None when the file does not exist, else the list of its
\* lines; a line is the list of its parts between colons, the blank line
\* being the empty list.
\* self.proxy after __init__, pick being the position random.choice takes
\* among the non-blank lines: the unpacking of a line that has not four
\* parts raises a ValueError, which __init__ catches and logs.
NonBlank(lines) == SelectSeq(lines, LAMBDA line : line # <<>>)
ProxyUrl(line) ==
    Str(<<"http://", line[3], ":", line[4], "@", line[1], ":", line[2]>>)
ProxyPicked(proxies, pick) ==
    IF proxies = <<>> THEN None
    ELSE IF Len(proxies[pick]) # 4 THEN None
    ELSE ProxyUrl(proxies[pick])
ProxyOf(allow_proxy, proxies_txt, pick) ==
    IF ~allow_proxy \/ proxies_txt.k = "None" THEN None
    ELSE ProxyPicked(NonBlank(proxies_txt.v), pick)

\* An AmazonScraper after __init__ in the given configuration.
\* session_proxies is the proxies attribute of the current session.
AmazonScraperInit(by, allow_proxy, proxies_txt, pick) ==
    [session |-> 0, cookies |-> {},
     initial_csrf_token |-> None, is_initialized |-> FALSE,
     product_details |-> None, made_by |-> by,
     proxy |-> ProxyOf(allow_proxy, proxies_txt, pick),
     session_proxies |-> None]

\* An AmazonScraper after __init__ where proxying is disabled.
NewScraper(by) == AmazonScraperInit(by, FALSE, None, 1)

\* A new session object that is given no proxy.
CreateFreshSessionUnproxied(self, create_ok) ==
    IF create_ok
      THEN [self |-> [self EXCEPT !.session = self.session + 1,
                                  !.cookies = {},
                                  !.session_proxies = None],
            ret |-> TRUE]
      ELSE [self |-> self, ret |-> FALSE]

\* _create_fresh_session: a new session object with an empty jar, or False
\* when the client library raises.
CreateFreshSession(self, create_ok) ==
    IF create_ok
      THEN [self |-> [self EXCEPT
                        !.session = self.session + 1,
                        !.cookies = {},
                        !.session_proxies =
                           IF Truthy(self.proxy) THEN self.proxy ELSE None],
            ret |-> TRUE]
      ELSE [self |-> self, ret |-> FALSE]

\* self.session.get(...): the jar keeps the cookies of a response received;
\* every request goes to the one site.
SessionGet(self, kind, resp) ==
    IF resp.fault THEN self
    ELSE [self EXCEPT !.cookies = self.cookies \cup {"www.amazon.in"}]

\* parse_product_details of a page fetched for asin: {} when the markup
\* yields nothing, else the details of that page.
ParseProductDetails(asin, resp) ==
    IF resp.details = "full" THEN Dict(<<asin>>) ELSE Dict(<<>>)

\* A page request that parses the details whenever they are asked for.
ShouldParseAlways(parse_details, product_details) == parse_details

\* `if parse_details and not self.product_details:`
ShouldParse(parse_details, product_details) ==
    parse_details /\ ~Truthy(product_details)

\* The request and the token extraction of
\* _make_initial_product_page_request, once the session exists; parsed
\* tells whether parse_product_details was called.
PageRequestWithSession(self, asin, parse_details, resp) ==
    IF resp.fault
      THEN [self |-> self, ret |-> None, json_str |-> None, parsed |-> FALSE]
    ELSE LET got == SessionGet(self, "page", resp)
         IN IF resp.status_code # StatusOk
              THEN [self |-> got, ret |-> None, json_str |-> None,
                    parsed |-> FALSE]
              ELSE [self |-> IF ShouldParse(parse_details, got.product_details)
                               THEN [got EXCEPT !.product_details =
                                        ParseProductDetails(asin, resp)]
                               ELSE got,
                    ret |-> ExtractCsrfToken(resp.text),
                    json_str |-> JsonStrLocal(resp.text),
                    parsed |-> ShouldParse(parse_details, got.product_details)]

\* _make_initial_product_page_request: [self, ret, json_str], ret being the
\* token, None, or Raised when an exception leaves the function.
MakeInitialProductPageRequest(self, asin, parse_details, resp, create_ok) ==
    IF self.session = 0 /\ ~create_ok
      THEN [self |-> self, ret |-> None, json_str |-> None, parsed |-> FALSE]
      ELSE PageRequestWithSession(
             IF self.session = 0 THEN CreateFreshSession(self, TRUE).self ELSE self,
             asin, parse_details, resp)

\* initialize_session once its product page request returned r: the token
\* is kept, and is_initialized set when the token is truthy.
AfterHandshake(r) ==
    IF r.ret.k = "raise" THEN [self |-> r.self, ret |-> FALSE]
    ELSE IF ~Truthy(r.ret)
      THEN [self |-> [r.self EXCEPT !.initial_csrf_token = r.ret],
            ret |-> FALSE]
    ELSE [self |-> [r.self EXCEPT !.initial_csrf_token = r.ret,
                                  !.is_initialized = TRUE],
          ret |-> TRUE]

\* initialize_session(test_asin): [self, ret], ret a boolean.
InitializeSession(self, test_asin, resp, create_ok) ==
    IF ~CreateFreshSession(self, create_ok).ret THEN [self |-> self, ret |-> FALSE]
    ELSE AfterHandshake(MakeInitialProductPageRequest(
                          CreateFreshSession(self, create_ok).self,
                          test_asin, FALSE, resp, create_ok))

\* _make_modal_html_request(csrf_token): [self, ret].
MakeModalHtmlRequest(self, resp) ==
    IF self.session = 0 \/ resp.fault THEN [self |-> self, ret |-> None]
    ELSE [self |-> SessionGet(self, "modal", resp),
          ret |-> IF resp.status_code # StatusOk THEN None
                  ELSE ExtractModalToken(resp.text)]

\* An offers request that drops the session when it is refused.
GetOffersPageDropping(self, resp) ==
    IF self.session = 0 \/ resp.fault THEN [self |-> self, ret |-> None]
    ELSE IF resp.status_code = StatusOk
      THEN [self |-> SessionGet(self, "offers", resp), ret |-> Str(<<resp.page>>)]
      ELSE [self |-> [self EXCEPT !.session = 0, !.cookies = {},
                                  !.is_initialized = FALSE],
            ret |-> None]

\* _get_offers_page: [self, ret], ret being None or the response text; the
\* text of an offers response is its page (OfferPage below).
GetOffersPage(self, resp) ==
    IF self.session = 0 \/ resp.fault THEN [self |-> self, ret |-> None]
    ELSE [self |-> SessionGet(self, "offers", resp),
          ret |-> IF resp.status_code = StatusOk THEN Str(<<resp.page>>) ELSE None]

\* An offers page: blank (an empty body), or markup that lxml can read
\* (parseable): the divs with id aod-pinned-offer, the divs with id
\* aod-offer, in document order, and whether the filter list shows the
\* Prime icon.
OfferPage(blank, parseable, pinned, divs, has_prime_filter) ==
    [blank |-> blank, parseable |-> parseable, pinned |-> pinned,
     divs |-> divs, has_prime_filter |-> has_prime_filter]

\* ------------------------------------------------------------- money
\* Texts of prices are sequences of characters; the symbol "FREE" is the
\* four letters.  A float is an integer count of units of 10^-MoneyDigits,
\* which holds every decimal a text of at most MoneyDigits characters
\* writes.
Digits == <<"0", "1", "2", "3", "4", "5", "6", "7", "8", "9">>
IsDigit(ch) == \E i \in 1..Len(Digits) : Digits[i] = ch
DigitVal(ch) == (CHOOSE i \in 1..Len(Digits) : Digits[i] = ch) - 1
Float(n) == [k |-> "num", v |-> <<n>>]
Absent == [k |-> "absent", v |-> <<>>]

RECURSIVE Pow10(_)
Pow10(n) == IF n = 0 THEN 1 ELSE 10 * Pow10(n - 1)

\* str.strip(): without the blanks at both ends.
RECURSIVE Strip(_)
Strip(txt) ==
    IF txt = <<>> THEN txt
    ELSE IF Head(txt) = " " THEN Strip(Tail(txt))
    ELSE IF txt[Len(txt)] = " " THEN Strip(SubSeq(txt, 1, Len(txt) - 1))
    ELSE txt

\* re.sub(r'[^\d.]', '', txt): the digits and the dots of txt.
IsDigitOrDot(ch) == IsDigit(ch) \/ ch = "."
DigitsAndDots(txt) == SelectSeq(txt, IsDigitOrDot)

\* int of a run of digits (0 for the empty run).
RECURSIVE IntOf(_)
IntOf(ds) ==
    IF ds = <<>> THEN 0
    ELSE 10 * IntOf(SubSeq(ds, 1, Len(ds) - 1)) + DigitVal(ds[Len(ds)])

\* float(txt) for a text of digits and dots: a ValueError unless the text
\* has a digit and at most one dot.
PyFloatAt(txt, dot) ==
    IF dot = -1 THEN Float(IntOf(txt) * Pow10(MoneyDigits))
    ELSE Float(IntOf(SubSeq(txt, 1, dot)) * Pow10(MoneyDigits)
                 + IntOf(SubSeq(txt, dot + 2, Len(txt)))
                     * Pow10(MoneyDigits - (Len(txt) - dot - 1)))
PyFloat(txt) ==
    IF \/ ~\E i \in 1..Len(txt) : IsDigit(txt[i])
       \/ \E i, j \in 1..Len(txt) : i # j /\ txt[i] = "." /\ txt[j] = "."
      THEN Raised
      ELSE PyFloatAt(txt, Find(txt, ".", 0))

\* ----------------------------------------------------- delivery estimates
\* A delivery text is a sequence of tokens separated by blanks: words and
\* runs of digits (":" stands between two runs without blanks, as in 7:30).
Word(w) == [t |-> "word", w |-> w, n |-> 0]
Number(n) == [t |-> "num", w |-> "", n |-> n]
PyInt(n) == [k |-> "int", v |-> <<n>>]

\* A calendar date, and the calendar of datetime.
Date(year, month, day) == [year |-> year, month |-> month, day |-> day]
IsLeap(year) ==
    year % 4 = 0 /\ (year % 100 # 0 \/ year % 400 = 0)
DaysInMonth(year, month) ==
    IF month = 2 THEN (IF IsLeap(year) THEN 29 ELSE 28)
    ELSE IF month \in {4, 6, 9, 11} THEN 30 ELSE 31
RECURSIVE DaysBeforeMonth(_, _)
DaysBeforeMonth(year, month) ==
    IF month = 1 THEN 0
    ELSE DaysBeforeMonth(year, month - 1) + DaysInMonth(year, month - 1)
DaysBeforeYear(year) ==
    (year - 1) * 365 + (year - 1) \div 4 - (year - 1) \div 100
      + (year - 1) \div 400
\* date.toordinal()
Ordinal(date) ==
    DaysBeforeYear(date.year) + DaysBeforeMonth(date.year, date.month)
      + date.day
\* datetime(year, month, day) raises a ValueError unless the day exists.
ValidDate(date) ==
    date.day >= 1 /\ date.day <= DaysInMonth(date.year, date.month)
\* (date - today).days
DaysUntil(date, today) == Ordinal(date) - Ordinal(today)

\* The keys of the months dict, in its order.
Months ==
    <<"January", "February", "March", "April", "May", "June", "July",
      "August", "September", "October", "November", "December">>
MonthNum(name) == CHOOSE i \in 1..Len(Months) : Months[i] = name

\* str.lower() of a word.
Lower(w) ==
    CASE w \in {"Overnight", "OVERNIGHT"} -> "overnight"
      [] w \in {"Today", "TODAY"} -> "today"
      [] w \in {"Tomorrow", "TOMORROW"} -> "tomorrow"
      [] w \in {"AM", "Am"} -> "am"
      [] w \in {"PM", "Pm"} -> "pm"
      [] OTHER -> w

\* `keyword in delivery_estimate_lower` and `month in delivery_estimate`
HasLower(txt, keyword) ==
    \E i \in 1..Len(txt) : txt[i].t = "word" /\ Lower(txt[i].w) = keyword
HasWord(txt, w) == \E i \in 1..Len(txt) : txt[i] = Word(w)

\* The time range pattern, \d+(?::\d+)?\s*(?:AM|PM)\s*-\s*\d+(?::\d+)?
\* \s*(?:AM|PM) with re.IGNORECASE, tried at token i: the position after
\* the match, 0 for no match.
IsNum(txt, i) == i <= Len(txt) /\ txt[i].t = "num"
IsLowerWord(txt, i, ws) ==
    i <= Len(txt) /\ txt[i].t = "word" /\ Lower(txt[i].w) \in ws
AfterClock(txt, i) ==
    IF ~IsNum(txt, i) THEN 0
    ELSE IF IsLowerWord(txt, i + 1, {":"}) /\ IsNum(txt, i + 2) THEN i + 3
    ELSE i + 1
AfterHalf(txt, i) ==
    IF AfterClock(txt, i) # 0 /\ IsLowerWord(txt, AfterClock(txt, i), {"am", "pm"})
      THEN AfterClock(txt, i) + 1 ELSE 0
AfterRange(txt, i) ==
    IF AfterHalf(txt, i) # 0 /\ IsLowerWord(txt, AfterHalf(txt, i), {"-"})
      THEN AfterHalf(txt, AfterHalf(txt, i) + 1) ELSE 0

\* time_range: group 1 of the leftmost match, or None.
TimeRange(txt) ==
    LET starts == {i \in 1..Len(txt) : AfterRange(txt, i) # 0}
        first == CHOOSE i \in starts : \A j \in starts : i <= j
    IN IF starts = {} THEN None
       ELSE Str(SubSeq(txt, first, AfterRange(txt, first) - 1))

\* The tuple parse_delivery_days returns, and its exception.
DeliveryDays(earliest_days, latest_days, time_range) ==
    [k |-> "tuple", earliest_days |-> earliest_days,
     latest_days |-> latest_days, time_range |-> time_range]
DeliveryRaised ==
    [k |-> "raise", earliest_days |-> None, latest_days |-> None,
     time_range |-> None]

\* The relative keywords matched as written.
KeywordDaysAsWritten(txt) ==
    IF HasWord(txt, "overnight") THEN PyInt(0)
    ELSE IF HasWord(txt, "today") THEN PyInt(0)
    ELSE IF HasWord(txt, "tomorrow") THEN PyInt(1)
    ELSE None

\* The if/elif chain on the lowered text: the days of a relative keyword,
\* None when the text has none.
KeywordDays(txt) ==
    IF HasLower(txt, "overnight") THEN PyInt(0)
    ELSE IF HasLower(txt, "today") THEN PyInt(0)
    ELSE IF HasLower(txt, "tomorrow") THEN PyInt(1)
    ELSE None

\* mentioned_months: the months of the dict that the text holds, in the
\* order of the dict.
MentionedMonths(txt) ==
    SelectSeq(Months, LAMBDA name : HasWord(txt, name))

\* re.findall(r'\d+', delivery_estimate) as ints.
DayNumbers(txt) ==
    LET nums == SelectSeq(txt, LAMBDA tok : tok.t = "num")
    IN [i \in 1..Len(nums) |-> nums[i].n]

\* The year of a date of the given month: the next one when the month is
\* before today's.
YearOf(month, today) ==
    IF month < today.month THEN today.year + 1 ELSE today.year

\* The branches of parse_delivery_days that build dates.
DateRange(earliest, latest, today, time_range) ==
    IF ~ValidDate(earliest) \/ ~ValidDate(latest) THEN DeliveryRaised
    ELSE DeliveryDays(PyInt(DaysUntil(earliest, today)),
                      PyInt(DaysUntil(latest, today)), time_range)
DatesOf(months, days, today, time_range) ==
    IF months = <<>> \/ days = <<>>
      THEN DeliveryDays(None, None, None)
    ELSE IF Len(days) = 1
      THEN DateRange(Date(YearOf(MonthNum(months[1]), today),
                          MonthNum(months[1]), days[1]),
                     Date(YearOf(MonthNum(months[1]), today),
                          MonthNum(months[1]), days[1]),
                     today, time_range)
    ELSE IF Len(months) >= 2
      THEN DateRange(Date(YearOf(MonthNum(months[1]), today),
                          MonthNum(months[1]), days[1]),
                     Date(YearOf(MonthNum(months[2]), today),
                          MonthNum(months[2]), days[2]),
                     today, time_range)
    ELSE DateRange(Date(YearOf(MonthNum(months[1]), today),
                        MonthNum(months[1]), days[1]),
                   Date(YearOf(MonthNum(months[1]), today),
                        MonthNum(months[1]), days[2]),
                   today, time_range)

\* parse_delivery_days(delivery_estimate), today being the date of
\* datetime.now().
ParseDeliveryDays(delivery_estimate, today) ==
    IF delivery_estimate = <<>> THEN DeliveryDays(None, None, None)
    ELSE IF KeywordDays(delivery_estimate).k = "int"
      THEN DeliveryDays(KeywordDays(delivery_estimate),
                        KeywordDays(delivery_estimate),
                        TimeRange(delivery_estimate))
    ELSE DatesOf(MentionedMonths(delivery_estimate),
                 DayNumbers(delivery_estimate), today,
                 TimeRange(delivery_estimate))

\* One offer div, as extract_offer_data reads it: the identifier its seller
\* link gives ("None" when the link gives none), whether the div shows the
\* Prime badge, the texts of the a-price-whole and a-price-fraction spans
\* (None for none), and the delivery element (NoDelivery for none).
OfferDivOf(seller_id, badge, whole, fraction, delivery) ==
    [seller_id |-> seller_id, badge |-> badge, whole |-> whole,
     fraction |-> fraction, delivery |-> delivery]

\* A delivery element: its data-csa-c-delivery-price attribute (None when
\* the element has none) and the text of its bold span (None for no span).
DeliveryElement(delivery_price, delivery_text) ==
    [present |-> TRUE, delivery_price |-> delivery_price,
     delivery_text |-> delivery_text]
NoDelivery ==
    [present |-> FALSE, delivery_price |-> None, delivery_text |-> None]

\* An offer div without price and without delivery information.
OfferDiv(seller_id, badge) ==
    OfferDivOf(seller_id, badge, None, None, NoDelivery)

\* offer_data['price']: set when both price spans have text.
OfferPrice(offer_div) ==
    IF offer_div.whole.k = "None" \/ offer_div.fraction.k = "None" THEN Absent
    ELSE PyFloat(DigitsAndDots(Strip(offer_div.whole.v) \o <<".">>
                                  \o Strip(offer_div.fraction.v)))

\* A delivery price read with its sign.
ShippingCostSigned(shipping_cost) ==
    IF shipping_cost = Str(<<"FREE">>) THEN Float(0)
    ELSE IF shipping_cost.k = "None" THEN Raised
    ELSE IF DigitsAndDots(shipping_cost.v) = <<>> THEN Float(0)
    ELSE IF Head(shipping_cost.v) = "-"
              /\ PyFloat(DigitsAndDots(shipping_cost.v)).k = "num"
      THEN Float(0 - PyFloat(DigitsAndDots(shipping_cost.v)).v[1])
    ELSE PyFloat(DigitsAndDots(shipping_cost.v))

\* offer_data['shipping_cost'] from the data-csa-c-delivery-price attribute:
\* re.sub raises a TypeError on None.
ShippingCost(shipping_cost) ==
    IF shipping_cost = Str(<<"FREE">>) THEN Float(0)
    ELSE IF shipping_cost.k = "None" THEN Raised
    ELSE IF DigitsAndDots(shipping_cost.v) = <<>> THEN Float(0)
    ELSE PyFloat(DigitsAndDots(shipping_cost.v))

\* offer_data['price'] + offer_data['shipping_cost']: a KeyError without
\* the price.
TotalPrice(price, shipping_cost) ==
    IF shipping_cost.k = "absent" THEN price
    ELSE IF price.k # "num" \/ shipping_cost.k # "num" THEN Raised
    ELSE Float(price.v[1] + shipping_cost.v[1])

\* What parse_delivery_days gives extract_offer_data: it is called on the
\* text of the bold span of the delivery element.
OfferDelivery(offer_div, today) ==
    IF offer_div.delivery.present /\ offer_div.delivery.delivery_text.k = "str"
      THEN ParseDeliveryDays(offer_div.delivery.delivery_text.v, today)
      ELSE DeliveryDays(None, None, None)

\* offer_data['delivery_estimate']
DeliveryEstimate(delivery_text, time_range) ==
    IF delivery_text.k # "str" THEN Absent
    ELSE IF time_range.k = "str" /\ HasLower(delivery_text.v, "overnight")
      THEN Str(<<Word("Overnight")>> \o time_range.v)
    ELSE IF time_range.k = "str" /\ HasLower(delivery_text.v, "today")
      THEN Str(<<Word("Today")>> \o time_range.v)
    ELSE delivery_text

\* Whether extract_offer_data(offer_div, ...) raises: nothing in it
\* catches an exception.
ExtractRaises(offer_div) ==
    \/ OfferPrice(offer_div).k = "raise"
    \/ /\ offer_div.delivery.present
       /\ TotalPrice(OfferPrice(offer_div),
                     ShippingCost(offer_div.delivery.delivery_price)).k = "raise"
    \/ OfferDelivery(offer_div, env.today).k = "raise"

\* extract_offer_data(offer_div, is_pinned): the offer dict it returns when
\* it does not raise (Absent: the dict lacks the key).
ExtractOfferData(offer_div, is_pinned) ==
    [seller_id |-> offer_div.seller_id, buy_box_winner |-> is_pinned,
     prime |-> offer_div.badge,
     price |-> OfferPrice(offer_div),
     shipping_cost |->
        IF offer_div.delivery.present
          THEN ShippingCost(offer_div.delivery.delivery_price) ELSE Absent,
     total_price |->
        TotalPrice(OfferPrice(offer_div),
                   IF offer_div.delivery.present
                     THEN ShippingCost(offer_div.delivery.delivery_price)
                     ELSE Absent),
     earliest_days |-> OfferDelivery(offer_div, env.today).earliest_days,
     latest_days |-> OfferDelivery(offer_div, env.today).latest_days,
     delivery_time_range |-> OfferDelivery(offer_div, env.today).time_range,
     delivery_estimate |->
        DeliveryEstimate(offer_div.delivery.delivery_text,
                         OfferDelivery(offer_div, env.today).time_range)]

\* A parse that takes every div for the pinned offer.
ParseOffersAllPinned(page) ==
    [i \in 1..Len(page.pinned) |-> ExtractOfferData(page.pinned[i], TRUE)]
      \o [i \in 1..Len(page.divs) |-> ExtractOfferData(page.divs[i], TRUE)]

\* The offers list of parse_offers: the first pinned div, if there is one,
\* then every offer div.
ParseOffers(page) ==
    (IF page.pinned # <<>>
       THEN <<ExtractOfferData(page.pinned[1], TRUE)>> ELSE <<>>)
      \o [i \in 1..Len(page.divs) |-> ExtractOfferData(page.divs[i], FALSE)]

\* `not html` for the value _get_offers_page returned.
NoHtml(ret) == ret.k = "None" \/ ret.v[1].blank

\* parse_offers(html) raises on markup lxml cannot read and when
\* extract_offer_data raises on one of the divs it is called on.
ParseOffersRaises(ret) ==
    \/ ret.k = "None"
    \/ ~ret.v[1].parseable
    \/ ret.v[1].pinned # <<>> /\ ExtractRaises(ret.v[1].pinned[1])
    \/ \E i \in 1..Len(ret.v[1].divs) : ExtractRaises(ret.v[1].divs[i])

\* A merge that leaves a flag that was already set.
MergeOffersKeepingFlag(all_offers_data, prime_offers_data) ==
    LET prime_seller_ids ==
            {prime_offers_data[i].seller_id : i \in 1..Len(prime_offers_data)}
    IN [i \in 1..Len(all_offers_data) |->
          [all_offers_data[i] EXCEPT
             !.prime = @ \/ all_offers_data[i].seller_id \in prime_seller_ids]]

\* A merge that also emits the offers of the filtered listing.
MergeOffersAppending(all_offers_data, prime_offers_data) ==
    LET prime_seller_ids ==
            {prime_offers_data[i].seller_id : i \in 1..Len(prime_offers_data)}
    IN [i \in 1..Len(all_offers_data) |->
          [all_offers_data[i] EXCEPT
             !.prime = all_offers_data[i].seller_id \in prime_seller_ids]]
         \o prime_offers_data

\* The merge at the end of get_product_data: every offer of the unfiltered
\* listing, its prime flag set to the membership of its seller_id in the
\* seller ids of the filtered listing.
MergeOffers(all_offers_data, prime_offers_data) ==
    LET prime_seller_ids ==
            {prime_offers_data[i].seller_id : i \in 1..Len(prime_offers_data)}
    IN [i \in 1..Len(all_offers_data) |->
          [all_offers_data[i] EXCEPT
             !.prime = all_offers_data[i].seller_id \in prime_seller_ids]]

\* ------------------------------------------------------------ csv_formatter
\* A JSON value: None, a str, a number, a bool, a list (its items) or a dict
\* (its <<key, value>> pairs, every key once).  A key is a sequence of
\* characters, "_" being one of them.
List(elems) == [k |-> "list", v |-> elems]
Bool(b) == [k |-> "bool", v |-> <<b>>]

\* f"{parent_key}{separator}{k}" if parent_key else k
NewKey(parent_key, key) ==
    IF parent_key # <<>> THEN parent_key \o <<"_">> \o key ELSE key
\* f"{new_key}_{i+1}", i + 1 being the position n of the item
IndexedKey(new_key, n) == new_key \o <<"_", Digits[n + 1]>>

\* items[key] = value on a dict held as its pairs in insertion order.
SetItem(pairs, key, value) ==
    IF \E i \in 1..Len(pairs) : pairs[i][1] = key
      THEN [i \in 1..Len(pairs) |->
              IF pairs[i][1] = key THEN <<key, value>> ELSE pairs[i]]
      ELSE Append(pairs, <<key, value>>)

\* items.update(other)
RECURSIVE DictUpdate(_, _)
DictUpdate(pairs, other) ==
    IF other = <<>> THEN pairs
    ELSE DictUpdate(SetItem(pairs, Head(other)[1], Head(other)[2]), Tail(other))

\* all(isinstance(item, dict) for item in v)
AllDicts(elems) == \A i \in 1..Len(elems) : elems[i].k = "dict"

\* flatten_json(json_data, parent_key): the body of the loop for the pairs
\* from position n on, items being the dict built so far.
RECURSIVE FlattenFrom(_, _, _, _)
RECURSIVE FlattenList(_, _, _, _)
RECURSIVE FlattenValue(_, _, _)
FlattenValue(val, new_key, items) ==
    IF val.k = "dict"
      THEN DictUpdate(items, FlattenFrom(val.v, new_key, 1, <<>>))
    ELSE IF val.k = "list" THEN FlattenList(val.v, new_key, 1, items)
    ELSE SetItem(items, new_key, val)
FlattenList(elems, new_key, n, items) ==
    IF n > Len(elems) THEN items
    ELSE FlattenList(elems, new_key, n + 1,
            IF AllDicts(elems)
              THEN DictUpdate(items,
                      FlattenFrom(elems[n].v, IndexedKey(new_key, n), 1, <<>>))
              ELSE SetItem(items, IndexedKey(new_key, n), elems[n]))
FlattenFrom(pairs, parent_key, n, items) ==
    IF n > Len(pairs) THEN items
    ELSE FlattenFrom(pairs, parent_key, n + 1,
            FlattenValue(pairs[n][2], NewKey(parent_key, pairs[n][1]), items))

\* flatten_json(json_data): the flattened dict, as its pairs.
FlattenJson(json_data) == FlattenFrom(json_data.v, <<>>, 1, <<>>)

\* ---------------------------------------------------------- product details
\* The markup of a product page as parse_product_details reads it: whether
\* html.fromstring reads it (parseable), whether it has the div centerCol,
\* the extractors whose markup the page holds (marked), and those of them
\* whose markup makes the extractor raise (broken).  An extractor is named
\* after the key it writes; "images" and "videos" fill the media field.
ProductMarkup(parseable, center_col, marked, broken) ==
    [parseable |-> parseable, center_col |-> center_col, marked |-> marked,
     broken |-> broken]

\* The extractors that write to main_product_details_section, and those
\* that write a section of their own, in the order of the code.
MainExtractors ==
    <<"product_title", "brand", "average_rating", "feature_bullets",
      "available_options">>
MediaExtractors == <<"images", "videos">>
SectionExtractors ==
    <<"reviews_histogram_section", "product_information_section",
      "aplus_content", "brand_story_section">>

\* A try block of parse_product_details: the extractor writes its key when
\* it finds its markup and does not raise; its except clause logs.
Yields(page, extractor) ==
    extractor \in page.marked /\ extractor \notin page.broken

\* The pairs the extractors of a list write, the value naming the key.
Extracted(page, extractors) ==
    LET found == SelectSeq(extractors, LAMBDA e : Yields(page, e))
    IN [n \in 1..Len(found) |-> <<found[n], Str(<<found[n]>>)>>]

\* `if media['images'] or media['videos']:` the media field
MediaField(page) ==
    IF Extracted(page, MediaExtractors) = <<>> THEN <<>>
    ELSE << <<"media", Dict(Extracted(page, MediaExtractors))>> >>

\* main_product_details_section, then `if main_product_details_section:`
MainSection(page) == Extracted(page, MainExtractors) \o MediaField(page)
MainSectionField(page) ==
    IF MainSection(page) = <<>> THEN <<>>
    ELSE << <<"main_product_details_section", Dict(MainSection(page))>> >>

\* parse_product_details(html_text): {} when html.fromstring raises (the
\* outer except) and when centerCol is not found, else what the extractors
\* wrote.
ParseDetails(page) ==
    IF ~page.parseable THEN Dict(<<>>)
    ELSE IF ~page.center_col THEN Dict(<<>>)
    ELSE Dict(MainSectionField(page) \o Extracted(page, SectionExtractors))

\* ------------------------------------------------------- SessionPool methods
\* A get that reads the head and leaves it in the queue.
QueueGetPeek(q) == [item |-> Head(q), rest |-> q]

\* Queue.get on a non-empty queue: the head, and the queue without it.
QueueGet(q) == [item |-> Head(q), rest |-> Tail(q)]

\* return_session(session): the queue afterwards.  session is 0 for None.
ReturnSessionPut(q, session, is_initialized) ==
    IF session # 0 /\ is_initialized THEN Append(q, session) ELSE q

\* A fallback that also queues the scraper it made.
FallbackQueued(q, session) == Append(q, session)

\* The except path of get_session hands the scraper of _create_new_session
\* to the caller: the queue afterwards.
FallbackLeavesQueue(q, session) == q

\* A construction that hands out the scraper made last instead of a new one.
ReuseScraper(count) == IF count = 0 THEN 1 ELSE count

\* scraper = AmazonScraper(): a new object, given how many exist.
ConstructScraper(count) == count + 1

\* -------------------------------------------- get_product_data decisions
\* A call that leaves the token of the scraper as it was.
KeepToken(self, ret) == self

\* `self.initial_csrf_token = self._make_initial_product_page_request(...)`
StoreToken(self, ret) == [self EXCEPT !.initial_csrf_token = ret]

\* The call going on without its first token.
TokenMissingIgnored(ret) == FALSE

\* `if not self.initial_csrf_token: return None`
TokenMissing(ret) == ~Truthy(ret)

\* The call going on without its second token.
ModalTokenMissingIgnored(ret) == FALSE

\* `if not csrf_token2: return None`
ModalTokenMissing(ret) == ~Truthy(ret)

\* `if not all_offers_html: return None`
OffersMissing(ret) == NoHtml(ret)

\* The Prime-only request made whatever the listing showed.
AlwaysPrimeRequest(has_prime_filter) == TRUE

\* `if has_prime_filter:` the Prime-only request is made
WantsPrimeRequest(has_prime_filter) == has_prime_filter

\* The record get_product_data returns, and its None.
NoRecord == [k |-> "None", asin |-> "", product_details |-> None,
             offers_data |-> <<>>]
FinalData(asin, product_details, offers_data) ==
    [k |-> "dict", asin |-> asin, product_details |-> product_details,
     offers_data |-> offers_data]

\* The locals of one get_product_data call, before it starts.  reqs is the
\* log of the requests the call issued (kind, and the anti-csrftoken-a2z
\* header sent); failed names the first request of the call that got no
\* usable answer (a fault, a non-success status, or a body its parse
\* rejects); html and json_str are the locals of the last token scan;
\* page_ret is what the last _make_initial_product_page_request returned;
\* all_offers_data is the parsed unfiltered listing as it was before the
\* merge, prime_offers_data the parsed filtered listing; parsed tells
\* whether the product page request of step 1 called parse_product_details,
\* token_before is self.initial_csrf_token as step 1 found it.
NoCall ==
    [asin |-> "", reqs |-> <<>>, failed |-> "none", html |-> None,
     json_str |-> None, page_ret |-> None, parsed |-> FALSE,
     token_before |-> None,
     csrf_token2 |-> None,
     all_offers_html |-> None, all_offers_data |-> <<>>,
     has_prime_filter |-> FALSE, prime_offers_data |-> <<>>,
     result |-> NoRecord]

Request(kind, csrf) == [kind |-> kind, csrf |-> csrf]

\* The locals html and json_str after a product page request.
HtmlLocal(resp) ==
    IF resp.fault \/ resp.status_code # StatusOk THEN None ELSE Str(resp.text)
JsonStrAfter(resp) ==
    IF resp.fault \/ resp.status_code # StatusOk THEN None
    ELSE JsonStrLocal(resp.text)

\* Whether a request got no usable answer.
PageUnusable(resp) ==
    resp.fault \/ resp.status_code # StatusOk \/ ~Truthy(ExtractTry(resp.text))
ModalUnusable(resp) ==
    resp.fault \/ resp.status_code # StatusOk
      \/ ~Truthy(ExtractModalToken(resp.text))
OffersUnusable(resp) ==
    resp.fault \/ resp.status_code # StatusOk \/ resp.page.blank
      \/ ParseOffersRaises(Str(<<resp.page>>))

\* The date of a run that reads no delivery text.
AnyDay == Date(2025, 1, 1)

\* What the process finds around it: the date, allow_proxy of the
\* configuration and the file proxies.txt.
Env(today, allow_proxy, proxies_txt) ==
    [today |-> today, allow_proxy |-> allow_proxy, proxies_txt |-> proxies_txt]
\* The surroundings of a run without proxies.
PlainEnv == Env(AnyDay, FALSE, None)

\* The locals of main and of its process_asin call, when main is not
\* running: args is the command line, all_asins the list main loops over,
\* i the position of the loop in it, attempts the identifiers process_asin
\* was called with, result and csv_data the locals of process_asin.
NoBatch ==
    [at |-> "none", args |-> <<>>, all_asins |-> <<>>, i |-> 0,
     attempts |-> <<>>, success_count |-> 0, combined_csv_data |-> <<>>,
     result |-> None, csv_data |-> None]

\* ------------------------------------------------------------ input sets
Asins == {"B1", "B2"}

OffersResponse(fault, status_code, page) ==
    [fault |-> fault, status_code |-> status_code, page |-> page]
ModalResponse(fault, status_code, text) ==
    [fault |-> fault, status_code |-> status_code, text |-> text]

BlankPage == OfferPage(TRUE, FALSE, <<>>, <<>>, FALSE)

\* What the site answers to the threads of the pool: to each request, a
\* usable answer or a refusal.
PoolAsins == {"B1"}
PoolPages ==
    { PageResponse(FALSE, StatusOk, GoodText("t1"), "full"),
      PageResponse(FALSE, 503, <<>>, "empty") }
PoolModals ==
    { ModalResponse(FALSE, StatusOk, ModalText("m1")),
      ModalResponse(FALSE, 503, <<>>) }
PoolOffers ==
    { OffersResponse(FALSE, StatusOk,
         OfferPage(FALSE, TRUE, <<OfferDiv("A", FALSE)>>,
                   <<OfferDiv("B", FALSE)>>, TRUE)),
      OffersResponse(FALSE, 503, BlankPage) }
PoolPrimes ==
    { OffersResponse(FALSE, StatusOk,
         OfferPage(FALSE, TRUE, <<>>, <<OfferDiv("B", FALSE)>>, TRUE)),
      OffersResponse(FALSE, 503, BlankPage) }

\* --------------------------------------------------------------- the pool
\* The state when SessionPool.__init__ has made the queue and is about to
\* run initialize_pool; no scraper exists yet.
Init ==
    /\ sessions = <<>>
    /\ init_count = 0
    /\ made = 0
    /\ scrapers = [s \in Scrapers |-> NewScraper("none")]
    /\ pc = [c \in Callers |-> "idle"]
    /\ held = [c \in Callers |-> 0]
    /\ via = [c \in Callers |-> "none"]
    /\ call = [c \in Callers |-> NoCall]
    /\ env = PlainEnv
    /\ batch = NoBatch

\* A task that queues its scraper whatever the handshake gave.
PutWhateverHandshake(r, id) ==
    /\ made < MaxWarm
    /\ made' = id
    /\ scrapers' = [scrapers EXCEPT ![id] = r.self]
    /\ sessions' = Append(sessions, id)

\* One task of initialize_pool: _initialize_single_session.  The scraper is
\* kept (and named) only when its handshake succeeds; the tasks touch the
\* pool through Queue.put alone, so they are taken one at a time.
PutIfInitialized(r, id) ==
    IF r.ret
      THEN /\ made < MaxWarm
           /\ made' = id
           /\ scrapers' = [scrapers EXCEPT ![id] = r.self]
           /\ sessions' = Append(sessions, id)
      ELSE UNCHANGED <<made, scrapers, sessions>>

InitializeSingleSession(resp, create_ok) ==
    /\ init_count < PoolSize
    /\ init_count' = init_count + 1
    /\ PutIfInitialized(InitializeSession(NewScraper("pool"), TestAsin, resp,
                                          create_ok),
                        ConstructScraper(made))
    /\ UNCHANGED <<pc, held, via, call, env, batch>>

\* A thread calls get_session and waits in Queue.get(timeout=10).
CallGetSession(c) ==
    /\ init_count = PoolSize
    /\ pc[c] = "idle"
    /\ pc' = [pc EXCEPT ![c] = "waiting"]
    /\ UNCHANGED <<sessions, init_count, made, scrapers, held, via, call, env,
                   batch>>

\* Queue.get returns: only when the queue holds a scraper.
GetFromQueue(c) ==
    /\ pc[c] = "waiting"
    /\ sessions # <<>>
    /\ held' = [held EXCEPT ![c] = QueueGet(sessions).item]
    /\ sessions' = QueueGet(sessions).rest
    /\ via' = [via EXCEPT ![c] = "queue"]
    /\ pc' = [pc EXCEPT ![c] = "holding"]
    /\ UNCHANGED <<init_count, made, scrapers, call, env, batch>>

FallbackMade == Cardinality({s \in 1..made : scrapers[s].made_by = "fallback"})

\* _create_new_session: the new scraper when its initialize_session
\* succeeded, else None (0).
CreateNewSession(c, r, id) ==
    IF r.ret
      THEN /\ FallbackMade < MaxFallback
           /\ made < MaxScrapers
           /\ made' = IF id > made THEN id ELSE made
           /\ scrapers' = [scrapers EXCEPT ![id] = r.self]
           /\ held' = [held EXCEPT ![c] = id]
           /\ sessions' = FallbackLeavesQueue(sessions, id)
      ELSE /\ held' = [held EXCEPT ![c] = 0]
           /\ UNCHANGED <<made, scrapers, sessions>>

\* Queue.get raises Empty, which it does only while the queue is empty:
\* get_session answers with what _create_new_session returns.
GetTimeout(c, resp, create_ok) ==
    /\ pc[c] = "waiting"
    /\ sessions = <<>>
    /\ CreateNewSession(c, InitializeSession(NewScraper("fallback"), TestAsin,
                                             resp, create_ok),
                        ConstructScraper(made))
    /\ via' = [via EXCEPT ![c] = "fallback"]
    /\ pc' = [pc EXCEPT ![c] = "holding"]
    /\ UNCHANGED <<init_count, call, env, batch>>

\* get_session answered None: the thread has nothing to use or return.
GiveUp(c) ==
    /\ pc[c] = "holding"
    /\ held[c] = 0
    /\ pc' = [pc EXCEPT ![c] = "idle"]
    /\ via' = [via EXCEPT ![c] = "none"]
    /\ UNCHANGED <<sessions, init_count, made, scrapers, held, call, env,
                   batch>>

\* The thread calls return_session with the scraper it holds, once, before
\* or after a fetch.
ReturnSession(c) ==
    /\ pc[c] \in {"holding", "done"}
    /\ held[c] # 0
    /\ sessions' = ReturnSessionPut(sessions, held[c],
                                    scrapers[held[c]].is_initialized)
    /\ held' = [held EXCEPT ![c] = 0]
    /\ via' = [via EXCEPT ![c] = "none"]
    /\ pc' = [pc EXCEPT ![c] = "idle"]
    /\ call' = [call EXCEPT ![c] = NoCall]
    /\ UNCHANGED <<init_count, made, scrapers, env, batch>>

\* ------------------------------------------------------ get_product_data
\* The failed ghost keeps the first request that got no usable answer.
FirstFailure(old, unusable, step) ==
    IF old = "none" /\ unusable THEN step ELSE old

\* A call in progress: the scraper, the locals, and the step that is next
\* ("page", "modal", "offers", "prime") or "done" when the call returned.
InCall(self, locals, at) == [self |-> self, call |-> locals, pc |-> at]

\* The call of a scraper that was not initialized, once initialize_session
\* returned r.
Initialized(asin, resp, create_ok, r) ==
    InCall(r.self,
           [NoCall EXCEPT
              !.asin = asin,
              !.reqs = IF create_ok THEN <<Request("page", None)>> ELSE <<>>,
              !.html = IF create_ok THEN HtmlLocal(resp) ELSE None,
              !.json_str = IF create_ok THEN JsonStrAfter(resp) ELSE None,
              !.page_ret = IF create_ok /\ HtmlLocal(resp).k = "str"
                             THEN ExtractCsrfToken(resp.text) ELSE None,
              !.failed = IF r.ret THEN "none" ELSE "init"],
           IF r.ret THEN "page" ELSE "done")

\* The call starts: `if not self.is_initialized`, and initialize_session
\* with its own product page request when the scraper is not initialized.
BeginCall(self, asin, resp, create_ok) ==
    IF self.is_initialized
      THEN InCall(self, [NoCall EXCEPT !.asin = asin], "page")
      ELSE Initialized(asin, resp, create_ok,
                       InitializeSession(self, asin, resp, create_ok))

\* Step 1 once the product page request returned r: the token is stored
\* and tested.
PageReturned(st, resp, r) ==
    InCall(IF r.ret.k = "raise" THEN r.self ELSE StoreToken(r.self, r.ret),
           [st.call EXCEPT
              !.token_before = st.self.initial_csrf_token,
              !.reqs = Append(@, Request("page", None)),
              !.html = HtmlLocal(resp),
              !.json_str = r.json_str,
              !.page_ret = r.ret,
              !.parsed = r.parsed,
              !.failed = FirstFailure(@, PageUnusable(resp), "page")],
           IF r.ret.k = "raise" \/ TokenMissing(r.ret) THEN "done" ELSE "modal")

\* Step 1: the product page of the asin, its details and its token.
PageCall(st, resp) ==
    PageReturned(st, resp,
                 MakeInitialProductPageRequest(st.self, st.call.asin, TRUE,
                                               resp, TRUE))

\* Step 2 once the modal request returned r.
ModalReturned(st, resp, r) ==
    InCall(r.self,
           [st.call EXCEPT
              !.reqs = Append(@, Request("modal", st.self.initial_csrf_token)),
              !.csrf_token2 = r.ret,
              !.failed = FirstFailure(@, ModalUnusable(resp), "modal")],
           IF ModalTokenMissing(r.ret) THEN "done" ELSE "offers")

\* Step 2: the location-selection fragment, sent with the first token.
ModalCall(st, resp) == ModalReturned(st, resp, MakeModalHtmlRequest(st.self, resp))

\* Step 3 once the offers request returned r: the parse; the call ends
\* here with its record when the listing shows no Prime filter.
OffersReturned(st, resp, r, stop) ==
    InCall(r.self,
           [st.call EXCEPT
              !.reqs = Append(@, Request("offers", None)),
              !.failed = FirstFailure(@, OffersUnusable(resp), "offers"),
              !.all_offers_html = r.ret,
              !.has_prime_filter =
                 IF stop THEN @ ELSE r.ret.v[1].has_prime_filter,
              !.all_offers_data = IF stop THEN @ ELSE ParseOffers(r.ret.v[1]),
              !.result =
                 IF stop \/ WantsPrimeRequest(r.ret.v[1].has_prime_filter)
                   THEN @
                   ELSE FinalData(st.call.asin, r.self.product_details,
                                  MergeOffers(ParseOffers(r.ret.v[1]), <<>>))],
           IF ~stop /\ WantsPrimeRequest(r.ret.v[1].has_prime_filter)
             THEN "prime" ELSE "done")

\* Whether step 3 ends the call without a record.
OffersStop(ret) == OffersMissing(ret) \/ ParseOffersRaises(ret)

\* Step 3: the unfiltered offers listing.
OffersCall(st, resp) ==
    OffersReturned(st, resp, GetOffersPage(st.self, resp),
                   OffersStop(GetOffersPage(st.self, resp).ret))

\* The Prime offers of step 4: none without a usable answer.
PrimeOffersData(ret) ==
    IF NoHtml(ret) \/ ParseOffersRaises(ret) THEN <<>>
    ELSE ParseOffers(ret.v[1])

\* Step 4 once the filtered request returned r: the merge and the record.
PrimeReturned(st, resp, r) ==
    InCall(r.self,
           [st.call EXCEPT
              !.reqs = Append(@, Request("prime", None)),
              !.failed = FirstFailure(@, OffersUnusable(resp), "prime"),
              !.prime_offers_data = PrimeOffersData(r.ret),
              !.result = FinalData(st.call.asin, r.self.product_details,
                            MergeOffers(st.call.all_offers_data,
                                        PrimeOffersData(r.ret)))],
           "done")

\* Step 4: the Prime-only listing.
PrimeCall(st, resp) == PrimeReturned(st, resp, GetOffersPage(st.self, resp))

\* The thread c, holding a scraper, is at step `at` of a call.
AtStep(c, at) == pc[c] = at /\ held[c] # 0
Running(c) == InCall(scrapers[held[c]], call[c], pc[c])

\* The thread c moves to the state st of its call.
Goes(c, st) ==
    /\ scrapers' = [scrapers EXCEPT ![held[c]] = st.self]
    /\ call' = [call EXCEPT ![c] = st.call]
    /\ pc' = [pc EXCEPT ![c] = st.pc]
    /\ UNCHANGED <<sessions, init_count, made, held, via, env, batch>>

\* A scraper that is not initialized makes a new session object per call.
MayBegin(self) == self.is_initialized \/ self.session < MaxSessionObjects

\* The inputs of initialize_session: an initialized scraper reads none, so
\* one is enough.
InitInputs(self, inputs) ==
    IF self.is_initialized THEN {CHOOSE x \in inputs : TRUE} ELSE inputs

\* The steps of one thread's get_product_data, the site answering from the
\* given sets.
BeginFetch(c, asins, pages) ==
    /\ AtStep(c, "holding")
    /\ MayBegin(scrapers[held[c]])
    /\ \E asin \in asins, resp \in InitInputs(scrapers[held[c]], pages),
          create_ok \in InitInputs(scrapers[held[c]], BOOLEAN) :
          Goes(c, BeginCall(scrapers[held[c]], asin, resp, create_ok))

PageStep(c, pages) ==
    /\ AtStep(c, "page")
    /\ \E resp \in pages : Goes(c, PageCall(Running(c), resp))

ModalStep(c, modals) ==
    /\ AtStep(c, "modal")
    /\ \E resp \in modals : Goes(c, ModalCall(Running(c), resp))

OffersStep(c, offers) ==
    /\ AtStep(c, "offers")
    /\ \E resp \in offers : Goes(c, OffersCall(Running(c), resp))

PrimeStep(c, primes) ==
    /\ AtStep(c, "prime")
    /\ \E resp \in primes : Goes(c, PrimeCall(Running(c), resp))

\* get_product_data from a state of the call to its return, the site
\* answering each request the call gets to.
AfterOffers(c, st, primes) ==
    IF st.pc = "done" THEN Goes(c, st)
    ELSE \E prime \in primes : Goes(c, PrimeCall(st, prime))

AfterModal(c, st, offers, primes) ==
    IF st.pc = "done" THEN Goes(c, st)
    ELSE \E offer \in offers : AfterOffers(c, OffersCall(st, offer), primes)

AfterPage(c, st, modals, offers, primes) ==
    IF st.pc = "done" THEN Goes(c, st)
    ELSE \E modal \in modals :
            AfterModal(c, ModalCall(st, modal), offers, primes)

AfterBegin(c, st, pages, modals, offers, primes) ==
    IF st.pc = "done" THEN Goes(c, st)
    ELSE \E page \in pages :
            AfterPage(c, PageCall(st, page), modals, offers, primes)

\* A thread of the pool runs get_product_data on the scraper it holds, from
\* its first line to its return.  The call reads and writes that scraper and
\* its own locals only, so among the threads of the pool it is one step.
GetProductData(c, asins, pages, modals, offers, primes) ==
    /\ AtStep(c, "holding")
    /\ MayBegin(scrapers[held[c]])
    /\ \E asin \in asins, init_resp \in InitInputs(scrapers[held[c]], pages),
          create_ok \in InitInputs(scrapers[held[c]], BOOLEAN) :
          AfterBegin(c, BeginCall(scrapers[held[c]], asin, init_resp, create_ok),
                     pages, modals, offers, primes)

Fetch(c, asins, pages, modals, offers, primes) ==
    \/ BeginFetch(c, asins, pages)
    \/ PageStep(c, pages)
    \/ ModalStep(c, modals)
    \/ OffersStep(c, offers)
    \/ PrimeStep(c, primes)

\* The pool and its threads: each thread acquires a scraper, fetches at most
\* one product with it and returns it.
Next ==
    \/ \E resp \in PoolPages, create_ok \in BOOLEAN :
          InitializeSingleSession(resp, create_ok)
    \/ \E c \in Callers :
          \/ CallGetSession(c)
          \/ GetFromQueue(c)
          \/ \E resp \in PoolPages, create_ok \in BOOLEAN :
                GetTimeout(c, resp, create_ok)
          \/ GiveUp(c)
          \/ ReturnSession(c)
          \/ GetProductData(c, PoolAsins, PoolPages, PoolModals, PoolOffers, PoolPrimes)

Spec == Init /\ [][Next]_vars

\* ------------------------------------------------- one scraper used directly
\* The texts the token scan is tried on: after the anchors, every text of
\* at most MaxScanLen symbols, and the blobs below.
ScanAlphabet == {"{", "}", "\"", "\\", "x"}
ScanTails == UNION { [1..n -> ScanAlphabet] : n \in 0..MaxScanLen }

\* {"a":"b\"}c"} : a string literal holding an escaped quote and a brace.
ClaimSpan ==
    <<"{", "\"", "x", "\"", ":", "\"", "x", "\\", "\"", "}", "x", "\"", "}">>
SpanSuffixes == {<<>>, <<"x">>, <<"\"">>, <<"x", "}">>}
SpanAnchors == {<<"ID", "DMS">>, <<"ID", "DMD">>}

\* Blobs of valid JSON around the token key.
KeyBlobs ==
    { <<"{", "\"", "H", "\"", ":", "1", "}">>,
      <<"{", "\"", "H", "\"", ":", "\"", "Z", "\"", "}">>,
      <<"{", "\"", "H", "\"", ":", "{", "}", "}">>,
      <<"{", "\"", "H", "\"", ":", "{", "\"", "Z", "\"", ":", "1", "}", "}">>,
      <<"{", "\"", "H", "\"", ":", "{", "\"", "Z", "\"", ":", "\"", "\"", "}", "}">>,
      <<"{", "\"", "H", "\"", ":", "{", "\"", "Z", "\"", ":", "{", "}", "}", "}">>,
      <<"{", "\"", "x", "\"", ":", "1", ",", "\"", "x", "\"", ":", "1", "}">>,
      <<"1">> }

ScanTexts ==
    { a \o t : a \in SpanAnchors \cup {<<"DMS">>}, t \in ScanTails }
      \cup { a \o ClaimSpan \o x : a \in SpanAnchors, x \in SpanSuffixes }
      \cup { a \o b \o x : a \in SpanAnchors, b \in KeyBlobs,
                           x \in {<<>>, <<"\"">>} }
      \cup { GoodText("t1"), EntityText("t2"), <<>> }

\* Every scan text, as a product page served with success.
ScanPages == { PageResponse(FALSE, StatusOk, t, "full") : t \in ScanTexts }

FetchPages ==
    { PageResponse(FALSE, StatusOk, GoodText("t1"), "full"),
      PageResponse(FALSE, StatusOk, EntityText("t2"), "full"),
      PageResponse(FALSE, StatusOk, GoodText("t1"), "empty"),
      PageResponse(FALSE, StatusOk, <<"ID", "DMS", "{", "x">>, "full"),
      PageResponse(FALSE, StatusOk, <<"x">>, "full"),
      PageResponse(FALSE, 503, <<>>, "empty"),
      PageResponse(TRUE, 0, <<>>, "empty") }
FetchModals ==
    PoolModals \cup
      { ModalResponse(FALSE, StatusOk, <<"SC", "CT", "\"">>),
        ModalResponse(FALSE, StatusOk, <<"CT", "m1", "\"">>),
        ModalResponse(TRUE, 0, <<>>) }
FetchOffers ==
    PoolOffers \cup
      { OffersResponse(FALSE, StatusOk,
           OfferPage(FALSE, TRUE, <<>>, <<OfferDiv("A", FALSE)>>, FALSE)),
        OffersResponse(FALSE, StatusOk, OfferPage(FALSE, FALSE, <<>>, <<>>, FALSE)),
        OffersResponse(FALSE, StatusOk, BlankPage),
        OffersResponse(TRUE, 0, BlankPage) }
FetchPrimes ==
    PoolPrimes \cup
      { OffersResponse(FALSE, StatusOk, OfferPage(FALSE, FALSE, <<>>, <<>>, FALSE)),
        OffersResponse(TRUE, 0, BlankPage) }

\* The thread that owns the scraper: the first one.
Owner == CHOOSE c \in Callers : \A d \in Callers : c <= d

\* A scraper constructed by its user, as main and the module's own example
\* do: no pool, one thread holding the scraper.
OneScraperBeing(scraper) ==
    /\ sessions = <<>>
    /\ init_count = 0
    /\ made = 1
    /\ scrapers = [s \in Scrapers |->
                     IF s = 1 THEN scraper ELSE NewScraper("none")]
    /\ pc = [c \in Callers |-> IF c = Owner THEN "holding" ELSE "idle"]
    /\ held = [c \in Callers |-> IF c = Owner THEN 1 ELSE 0]
    /\ via = [c \in Callers |-> "none"]
    /\ call = [c \in Callers |-> NoCall]

OneScraper == OneScraperBeing(NewScraper("direct"))

InitFetch == OneScraper /\ env = PlainEnv /\ batch = NoBatch

\* The user takes the record (or None) and goes on to the next product.
NextProduct(c) ==
    /\ pc[c] = "done"
    /\ pc' = [pc EXCEPT ![c] = "holding"]
    /\ call' = [call EXCEPT ![c] = NoCall]
    /\ UNCHANGED <<sessions, init_count, made, scrapers, held, via, env,
                   batch>>

NextFetch ==
    \/ Fetch(Owner, Asins, FetchPages, FetchModals, FetchOffers, FetchPrimes)
    \/ NextProduct(Owner)

SpecFetch == InitFetch /\ [][NextFetch]_vars

\* One get_product_data call of a new scraper, the product page being any
\* of the scan texts.
NextScan == Fetch(Owner, PoolAsins, ScanPages, PoolModals, PoolOffers, PoolPrimes)

SpecScan == InitFetch /\ [][NextScan]_vars

\* ------------------------------------------------------ the offers listings
\* Offer divs of one listing, and pinned divs of one listing, at most.
MaxOffers == 2
MaxPinned == 2

Seqs(S, n) == UNION { [1..k -> S] : k \in 0..n }

\* One get_product_data call of a new scraper whose first three requests
\* are answered well; the unfiltered listing is any page of at most
\* MaxPinned pinned divs and MaxOffers offer divs, the filtered listing any
\* page of Prime offers.
MergeSellers == {"A", "B", "None"}
MergeDivs == {OfferDiv(s, b) : s \in MergeSellers, b \in BOOLEAN}
MergePinned == {OfferDiv("A", FALSE), OfferDiv("B", TRUE)}
MergePrimeDivs == {OfferDiv(s, TRUE) : s \in MergeSellers}
MergePages == {PageResponse(FALSE, StatusOk, GoodText("t1"), "full")}
MergeModals == {ModalResponse(FALSE, StatusOk, ModalText("m1"))}
MergeOffersPages ==
    { OffersResponse(FALSE, StatusOk, OfferPage(FALSE, TRUE, p, d, f)) :
         p \in Seqs(MergePinned, MaxPinned), d \in Seqs(MergeDivs, MaxOffers),
         f \in BOOLEAN }
MergePrimePages ==
    { OffersResponse(FALSE, StatusOk, OfferPage(FALSE, TRUE, p, d, TRUE)) :
         p \in Seqs({OfferDiv("A", TRUE)}, 1),
         d \in Seqs(MergePrimeDivs, MaxOffers) }
      \cup {OffersResponse(FALSE, 503, BlankPage)}

NextMerge ==
    Fetch(Owner, PoolAsins, MergePages, MergeModals, MergeOffersPages,
          MergePrimePages)

SpecMerge == InitFetch /\ [][NextMerge]_vars

\* --------------------------------------------------------- offer prices
\* One get_product_data call whose unfiltered listing is one offer div with
\* any price texts and any delivery price of at most MoneyDigits
\* characters; the filtered request is refused.
WholeTexts == Seqs({"1", "2", ".", " "}, MoneyDigits)
FractionTexts == Seqs({"5", "0", "."}, MoneyDigits)
DeliveryPrices ==
    {None, Str(<<"FREE">>)}
      \cup {Str(t) : t \in Seqs({"5", ".", "-"}, MoneyDigits)}
PriceDivs ==
    { OfferDivOf("A", FALSE, w, f, d) :
         w \in {None} \cup {Str(t) : t \in WholeTexts},
         f \in {None} \cup {Str(t) : t \in FractionTexts},
         d \in {NoDelivery}
                 \cup {DeliveryElement(sc, None) : sc \in DeliveryPrices} }
PricePages ==
    { OffersResponse(FALSE, StatusOk, OfferPage(FALSE, TRUE, <<>>, <<d>>, TRUE)) :
         d \in PriceDivs }
RefusedPrimes == {OffersResponse(FALSE, 503, BlankPage)}

NextPrice ==
    Fetch(Owner, PoolAsins, MergePages, MergeModals, PricePages, RefusedPrimes)

SpecPrice == InitFetch /\ [][NextPrice]_vars

\* ------------------------------------------------------- delivery texts
\* One get_product_data call whose unfiltered listing is one offer div with
\* a price, free delivery and a delivery text, on any of the dates below;
\* the filtered request is refused.
\* Texts of relative keywords: at most MaxKeywords words, then a clock
\* range or none, then a date or none.
KeywordWords ==
    {Word("Overnight"), Word("today"), Word("TODAY"), Word("Tomorrow"),
     Word("Arrives")}
ClockRanges ==
    { <<>>,
      <<Number(7), Word("AM"), Word("-"), Number(11), Word("AM")>>,
      <<Number(7), Word(":"), Number(30), Word("pm"), Word("-"), Number(9),
        Word("PM")>> }
DateSuffixes == {<<>>, <<Word("February"), Number(30)>>}
KeywordTexts ==
    { k \o c \o d : k \in Seqs(KeywordWords, MaxKeywords), c \in ClockRanges,
                    d \in DateSuffixes }

\* Texts of dates: a month and a day, a month and two days, two months
\* each with its day; the days include 0, and 30 and 45 which some or all
\* months lack.
MonthNames == {Months[i] : i \in 1..Len(Months)}
DayChoices == {0, 3, 30, 45}
DateTexts ==
    { <<Word(m), Number(d)>> : m \in MonthNames, d \in DayChoices }
      \cup { <<Word(m), Number(d), Word("-"), Number(e)>> :
               m \in MonthNames, d \in DayChoices, e \in DayChoices }
      \cup { <<Word(m), Number(d), Word("-"), Word(n), Number(e)>> :
               m \in MonthNames, n \in MonthNames, d \in DayChoices,
               e \in DayChoices }
      \cup { <<Word(m)>> : m \in MonthNames }
      \cup { <<Number(d)>> : d \in DayChoices }
\* Texts of one date with a clock range after it or before it.
ClockedDateTexts ==
    { <<Word(m), Number(d)>> \o c : m \in {"January", "June"}, d \in {3, 30},
                                    c \in ClockRanges }
      \cup { c \o <<Word(m), Number(d)>> : m \in {"January", "June"},
                                           d \in {3, 30}, c \in ClockRanges }
DeliveryTexts == KeywordTexts \cup DateTexts \cup ClockedDateTexts

\* The dates of datetime.now(): one in every month, the ends of a year, and
\* a leap day.
Todays ==
    { Date(2025, m, 15) : m \in 1..12 }
      \cup { Date(2025, 12, 31), Date(2026, 1, 1), Date(2024, 2, 29) }

DeliveryPages ==
    { OffersResponse(FALSE, StatusOk,
         OfferPage(FALSE, TRUE, <<>>,
            <<OfferDivOf("A", FALSE, Str(<<"1">>), Str(<<"5">>),
                         DeliveryElement(Str(<<"FREE">>), Str(t)))>>,
            TRUE)) :
         t \in DeliveryTexts }

InitDelivery ==
    OneScraper /\ env \in {Env(d, FALSE, None) : d \in Todays} /\ batch = NoBatch

NextDelivery ==
    Fetch(Owner, PoolAsins, MergePages, MergeModals, DeliveryPages,
          RefusedPrimes)

SpecDelivery == InitDelivery /\ [][NextDelivery]_vars

\* ------------------------------------------------------------------ main
\* The record of get_product_data as the JSON value process_asin receives:
\* the dict of a FinalData, None for None.  The timestamp is a number; the
\* details of a page are one cell naming the product.
OfferFields ==
    <<"seller_id", "buy_box_winner", "prime", "price", "shipping_cost",
      "total_price", "earliest_days", "latest_days", "delivery_time_range",
      "delivery_estimate">>
OfferValue(offer, field) ==
    CASE field = "seller_id" ->
           IF offer.seller_id = "None" THEN None ELSE Str(<<offer.seller_id>>)
      [] field = "buy_box_winner" -> Bool(offer.buy_box_winner)
      [] field = "prime" -> Bool(offer.prime)
      [] OTHER -> offer[field]
OfferJson(offer) ==
    Dict(SelectSeq([n \in 1..Len(OfferFields) |->
                      <<<<OfferFields[n]>>, OfferValue(offer, OfferFields[n])>>],
                   LAMBDA pair : pair[2] # Absent))
ResultJson(result) ==
    IF result.k = "None" THEN None
    ELSE Dict(<< <<<<"asin">>, Str(<<result.asin>>)>>,
                 <<<<"timestamp">>, Num>>,
                 <<<<"product_details">>,
                   IF result.product_details.k = "dict"
                     THEN Dict([n \in 1..Len(result.product_details.v) |->
                                  <<<<"title">>,
                                    Str(<<result.product_details.v[n]>>)>>])
                     ELSE result.product_details>>,
                 <<<<"offers_data">>,
                   List([n \in 1..Len(result.offers_data) |->
                           OfferJson(result.offers_data[n])])>> >>)

\* A loop that stops at the first identifier that fails.
NextAfterStopping(b, success) ==
    IF ~success \/ b.i + 1 > Len(b.all_asins) THEN "end" ELSE "loop"

\* `for asin in all_asins`: where main goes after process_asin returned.
NextAfter(b, success) ==
    IF b.i + 1 > Len(b.all_asins) THEN "end" ELSE "loop"

\* process_asin once get_product_data returned result, and the lines of the
\* loop of main that follow it; save_ok: writing the JSON file raised
\* nothing.
Succeeds(result, save_ok) == Truthy(result) /\ save_ok
CsvData(result, save_ok) ==
    IF Succeeds(result, save_ok) THEN Dict(FlattenJson(result)) ELSE None
AfterProcessAsin(b, result, save_ok) ==
    [b EXCEPT
       !.result = result,
       !.csv_data = CsvData(result, save_ok),
       !.success_count = IF Succeeds(result, save_ok) THEN @ + 1 ELSE @,
       !.combined_csv_data =
          IF Succeeds(result, save_ok) /\ Truthy(CsvData(result, save_ok))
            THEN Append(@, CsvData(result, save_ok)) ELSE @,
       !.i = @ + 1,
       !.at = NextAfter(b, Succeeds(result, save_ok))]

\* main was started with the identifiers args on its command line.
Started(args) == [NoBatch EXCEPT !.at = "start", !.args = args]

\* The orders in which a set can be iterated.
Orders(S) ==
    {q \in [1..Cardinality(S) -> S] : \A a \in S : \E n \in DOMAIN q : q[n] = a}

\* main up to its loop: the set of the identifiers, the empty ones
\* removed, as a list; main returns when the list is empty.
MainStart ==
    /\ batch.at = "start"
    /\ \E all_asins \in Orders({batch.args[n] : n \in 1..Len(batch.args)} \ {""}) :
          batch' = [batch EXCEPT
                      !.all_asins = all_asins,
                      !.i = 1,
                      !.at = IF all_asins = <<>> THEN "end" ELSE "loop"]
    /\ UNCHANGED <<sessions, init_count, made, scrapers, pc, held, via, call,
                   env>>

\* The loop calls process_asin with the next identifier.
ProcessAsin ==
    /\ batch.at = "loop"
    /\ batch' = [batch EXCEPT
                   !.at = "call",
                   !.attempts = Append(@, batch.all_asins[batch.i])]
    /\ UNCHANGED <<sessions, init_count, made, scrapers, pc, held, via, call,
                   env>>

\* The identifier process_asin passes to get_product_data.
CurrentAsin ==
    IF batch.at = "call" THEN {batch.all_asins[batch.i]} ELSE {}

\* get_product_data returned to process_asin, which returns to the loop.
ProcessAsinReturns(c) ==
    /\ batch.at = "call"
    /\ pc[c] = "done"
    /\ \E save_ok \in BOOLEAN :
          batch' = AfterProcessAsin(batch, ResultJson(call[c].result), save_ok)
    /\ pc' = [pc EXCEPT ![c] = "holding"]
    /\ call' = [call EXCEPT ![c] = NoCall]
    /\ UNCHANGED <<sessions, init_count, made, scrapers, held, via, env>>

BatchAsins == {"B1", "B2", ""}

InitBatch ==
    /\ OneScraper
    /\ env = PlainEnv
    /\ batch \in {Started(args) : args \in Seqs(BatchAsins, MaxArgs)}

NextBatch ==
    \/ MainStart
    \/ ProcessAsin
    \/ Fetch(Owner, CurrentAsin, PoolPages, PoolModals, PoolOffers, PoolPrimes)
    \/ ProcessAsinReturns(Owner)

SpecBatch == InitBatch /\ [][NextBatch]_vars

\* process_asin on any record: the records are dicts of at most MaxKeys
\* pairs whose values are scalars, dicts of scalars, lists of scalars and
\* lists of dicts, the lists of at most MaxItems items.
FlatKeys == {<<"a">>, <<"a", "_", "b">>, <<"a", "_", "1">>}
Scalars == {None, Str(<<"x">>), PyInt(1)}
InnerDicts == {Dict(<<>>)} \cup {Dict(<< <<<<"b">>, v>> >>) : v \in Scalars}
ValueLists ==
    {List(q) : q \in Seqs({Str(<<"x">>)}, MaxItems)}
      \cup {List(q) : q \in Seqs({Dict(<< <<<<"b">>, Str(<<"x">>)>> >>)}, MaxItems)}
JsonValues == Scalars \cup InnerDicts \cup ValueLists
KeyLists ==
    {q \in Seqs(FlatKeys, MaxKeys) : \A a, b \in 1..Len(q) : a # b => q[a] # q[b]}
NestedRecords ==
    UNION { { Dict([n \in 1..Len(ks) |-> <<ks[n], vs[n]>>]) :
                 vs \in [1..Len(ks) -> JsonValues] } : ks \in KeyLists }

InitFlatten ==
    /\ OneScraper
    /\ env = PlainEnv
    /\ batch = [Started(<<"B1">>) EXCEPT
                  !.all_asins = <<"B1">>, !.i = 1, !.attempts = <<"B1">>,
                  !.at = "call"]

\* get_product_data returns any record to process_asin.
ProcessAnyRecord ==
    /\ batch.at = "call"
    /\ \E result \in NestedRecords, save_ok \in BOOLEAN :
          batch' = AfterProcessAsin(batch, result, save_ok)
    /\ UNCHANGED <<sessions, init_count, made, scrapers, pc, held, via, call,
                   env>>

SpecFlatten == InitFlatten /\ [][ProcessAnyRecord]_vars

\* ---------------------------------------------------------------- proxies
\* A scraper constructed in any configuration: proxying allowed or not,
\* proxies.txt missing or holding at most MaxProxyLines lines, which are
\* blank, well formed (ip:port:username:password) or without credentials
\* (ip:port); then the scraper is used as in SpecFetch.
ProxyLines ==
    { <<>>, <<"h1", "80", "u1", "p1">>, <<"h2", "80", "u2", "p2">>,
      <<"h3", "80">> }
ProxyFiles == {None} \cup {Str(q) : q \in Seqs(ProxyLines, MaxProxyLines)}
\* The positions random.choice can take.
Picks(proxies_txt) ==
    IF proxies_txt.k = "None" \/ NonBlank(proxies_txt.v) = <<>> THEN {1}
    ELSE 1..Len(NonBlank(proxies_txt.v))

InitProxy ==
    /\ env \in {Env(AnyDay, a, f) : a \in BOOLEAN, f \in ProxyFiles}
    /\ \E pick \in Picks(env.proxies_txt) :
          OneScraperBeing(AmazonScraperInit("direct", env.allow_proxy,
                                            env.proxies_txt, pick))
    /\ batch = NoBatch

SpecProxy == InitProxy /\ [][NextFetch]_vars

\* ------------------------------------------------------- product pages
\* The test block of parsers.py: it reads the page of a file and calls
\* parse_product_details on it.  The page holds the markup of at most
\* MaxMarked extractors, sound or broken, with or without centerCol.
Range(q) == {q[n] : n \in 1..Len(q)}
Extractors ==
    Range(MainExtractors) \cup Range(MediaExtractors)
       \cup Range(SectionExtractors)
MarkedSets == {m \in SUBSET Extractors : Cardinality(m) <= MaxMarked}
ProductPages ==
    UNION { { ProductMarkup(p, c, m, b) : p \in BOOLEAN, c \in BOOLEAN,
                                          b \in SUBSET m } : m \in MarkedSets }

\* The locals of the test block before the call.
TestBlock(html_content) ==
    [at |-> "test", html_content |-> html_content, product_details |-> None]

InitDetails ==
    /\ OneScraper
    /\ env = PlainEnv
    /\ batch \in {TestBlock(page) : page \in ProductPages}

\* product_details = parse_product_details(html_content)
TestParse ==
    /\ batch.at = "test"
    /\ batch' = [batch EXCEPT !.at = "parsed",
                              !.product_details = ParseDetails(batch.html_content)]
    /\ UNCHANGED <<sessions, init_count, made, scrapers, pc, held, via, call,
                   env>>

SpecDetails == InitDetails /\ [][TestParse]_vars

\* ================================================================ properties
\* The kinds of the requests the call of thread c issued, in order, and
\* whether a scraper is in the idle queue.
Kinds(c) == [i \in 1..Len(call[c].reqs) |-> call[c].reqs[i].kind]
Issued(c, kind) == \E i \in 1..Len(call[c].reqs) : call[c].reqs[i].kind = kind
Idle(q, s) == \E i \in 1..Len(q) : q[i] = s
Done(c) == pc[c] = "done" /\ held[c] # 0

\* C1: exclusivity of the pool.  Between the get_session that returned a
\* scraper and the return_session of it, no other get_session returns that
\* scraper: no two threads hold the same scraper, a held scraper is not in
\* the idle queue, and the queue holds no scraper twice.
C1_Exclusive ==
    /\ \A c1, c2 \in Callers :
          c1 # c2 /\ held[c1] # 0 => held[c1] # held[c2]
    /\ \A c \in Callers : held[c] # 0 => ~Idle(sessions, held[c])
    /\ \A i, j \in 1..Len(sessions) : i # j => sessions[i] # sessions[j]

\* C1 witness: two threads each hold a scraper that get_session took from
\* the queue.
C1_TwoHolders ==
    \E c1, c2 \in Callers :
       /\ c1 # c2
       /\ held[c1] # 0 /\ via[c1] = "queue"
       /\ held[c2] # 0 /\ via[c2] = "queue"

\* C2: a thread waiting in get_session leaves the wait in one of two ways
\* only: the queue is not empty and it gets the scraper at its head, or the
\* queue is empty, its timeout elapses, and it gets None or a scraper made
\* for it then, which no initialize_pool task made and no queue ever held.
C2_BlockedWhileEmpty ==
    [][\A c \in Callers :
          pc[c] = "waiting" /\ pc'[c] # "waiting" =>
             \/ /\ via'[c] = "queue"
                /\ sessions # <<>>
                /\ held'[c] = Head(sessions)
                /\ sessions' = Tail(sessions)
             \/ /\ via'[c] = "fallback"
                /\ sessions = <<>>
                /\ \/ held'[c] = 0
                   \/ /\ held'[c] > made
                      /\ scrapers'[held'[c]].made_by = "fallback"]_vars

\* C2 witness: a thread waits on the empty queue while another thread holds
\* the scraper it took from the queue.
C2_WaitingOnEmpty ==
    \E c1, c2 \in Callers :
       /\ pc[c1] = "waiting" /\ sessions = <<>>
       /\ held[c2] # 0 /\ via[c2] = "queue"

C5_PrimeIffFilter ==
    \A c \in Callers :
       /\ Issued(c, "prime") => call[c].has_prime_filter
       /\ Done(c) => (call[c].has_prime_filter <=> Issued(c, "prime"))

\* C5 witness: a call returned its record without the filtered request, the
\* listing having shown no Prime filter.
C5_NoFilterNoRequest ==
    /\ Done(Owner)
    /\ call[Owner].result.k = "dict"
    /\ ~call[Owner].has_prime_filter
    /\ ~Issued(Owner, "prime")

C7_HandshakeFailureInvalidates ==
    \A c \in Callers :
       Done(c) /\ call[c].failed \in {"page", "modal"}
          => ~scrapers[held[c]].is_initialized

SpanFound(c) == call[c].json_str = Str(ClaimSpan)

\* C9 as stated: on an anchor followed by {"a":"b\"}c"} the scan yields the
\* whole span, whatever follows it, nothing included.
C9_FullSpan ==
    \A a \in SpanAnchors, x \in SpanSuffixes :
       call[Owner].html = Str(a \o ClaimSpan \o x) => SpanFound(Owner)

\* A text without the anchors, or whose brace balance does not return to
\* zero before the end, or whose span is not valid JSON, or whose JSON does
\* not give a token.
LacksToken(html) ==
    \/ ~\E i \in 1..Len(html) : html[i] = "ID"
    \/ DataModalStart(html) = -1
    \/ JsonEnd(html) >= Len(html)
    \/ JsonLoads(ReplaceQuot(JsonStr(html))).k = "raise"
    \/ TokenOf(JsonLoads(ReplaceQuot(JsonStr(html)))).k \in {"None", "raise"}

\* C10: no exception leaves the token extraction; on a body without the
\* anchors, without a balanced span before its end, or with a span that is
\* not valid JSON or lacks the token key, _make_initial_product_page_request
\* returns None and the get_product_data call returns None.
C10_ExtractionNeverRaises ==
    \A c \in Callers :
       /\ call[c].page_ret.k # "raise"
       /\ call[c].html.k = "str" /\ LacksToken(call[c].html.v)
             => /\ call[c].page_ret = None
                /\ pc[c] # "modal"
                /\ Done(c) => call[c].result.k = "None"

\* C10 witness: a call returned after a page whose anchors are present and
\* whose span is balanced but is not valid JSON.
C10_InvalidJsonSeen ==
    /\ Done(Owner)
    /\ call[Owner].html.k = "str"
    /\ DataModalStart(call[Owner].html.v) # -1
    /\ JsonEnd(call[Owner].html.v) < Len(call[Owner].html.v)
    /\ JsonLoads(ReplaceQuot(JsonStr(call[Owner].html.v))).k = "raise"

\* The seller identifiers of a listing.
SellerIds(offers) == {offers[i].seller_id : i \in 1..Len(offers)}

\* C11: the merge sets the prime flag of every offer of the unfiltered
\* listing to exactly the membership of its seller identifier in the set of
\* seller identifiers of the filtered listing, whatever the flag was before
\* the merge.
C11_FlagIsMembership ==
    Done(Owner) /\ call[Owner].result.k = "dict" =>
       /\ Len(call[Owner].result.offers_data) = Len(call[Owner].all_offers_data)
       /\ \A i \in 1..Len(call[Owner].result.offers_data) :
             call[Owner].result.offers_data[i].prime
               <=> (call[Owner].all_offers_data[i].seller_id
                      \in SellerIds(call[Owner].prime_offers_data))

\* C11 witness: the unfiltered listing has sellers A then B, A with the flag
\* set before the merge, the filtered listing has B only, and the record has
\* A false and B true.
C11_FlagOverwritten ==
    /\ Done(Owner) /\ call[Owner].result.k = "dict"
    /\ Len(call[Owner].all_offers_data) = 2
    /\ call[Owner].all_offers_data[1].seller_id = "A"
    /\ call[Owner].all_offers_data[1].prime
    /\ call[Owner].all_offers_data[2].seller_id = "B"
    /\ ~call[Owner].all_offers_data[2].prime
    /\ SellerIds(call[Owner].prime_offers_data) = {"B"}
    /\ ~call[Owner].result.offers_data[1].prime
    /\ call[Owner].result.offers_data[2].prime

\* C12: the merged offer list has the length and the order of the unfiltered
\* listing: an offer present only in the filtered listing is never emitted,
\* and apart from the prime flag every field of every offer is unchanged by
\* the merge.
C12_MergeKeepsListing ==
    Done(Owner) /\ call[Owner].result.k = "dict" =>
       /\ Len(call[Owner].result.offers_data) = Len(call[Owner].all_offers_data)
       /\ \A i \in 1..Len(call[Owner].result.offers_data) :
             [call[Owner].result.offers_data[i] EXCEPT
                !.prime = call[Owner].all_offers_data[i].prime]
               = call[Owner].all_offers_data[i]

\* C12 witness: a record of two offers was returned while the filtered
\* listing held an offer of a seller that the unfiltered listing lacks.
C12_FilteredOnlyOffer ==
    /\ Done(Owner) /\ call[Owner].result.k = "dict"
    /\ Issued(Owner, "prime")
    /\ Len(call[Owner].result.offers_data) = 2
    /\ SellerIds(call[Owner].prime_offers_data)
          \ SellerIds(call[Owner].all_offers_data) # {}

\* C13: every record returned by a successful get_product_data has at most
\* one offer with buy_box_winner true, and when such an offer exists it is
\* the first element of offers_data.
C13_OneBuyBoxWinnerFirst ==
    Done(Owner) /\ call[Owner].result.k = "dict" =>
       \A i \in 1..Len(call[Owner].result.offers_data) :
          call[Owner].result.offers_data[i].buy_box_winner => i = 1

\* C13 witness: a record of three offers, the first being the buy box
\* winner.
C13_WinnerAmongOffers ==
    /\ Done(Owner) /\ call[Owner].result.k = "dict"
    /\ Len(call[Owner].result.offers_data) = 3
    /\ call[Owner].result.offers_data[1].buy_box_winner

\* C14: every offer that extract_offer_data produced with a price has
\* total_price >= price when its shipping cost is known, and total_price
\* equal to price when the shipping cost is unknown, FREE or zero.
C14_TotalCoversPrice ==
    \A i \in 1..Len(call[Owner].all_offers_data) :
       call[Owner].all_offers_data[i].price.k = "num" =>
          /\ call[Owner].all_offers_data[i].total_price.k = "num"
          /\ call[Owner].all_offers_data[i].shipping_cost.k = "num" =>
                call[Owner].all_offers_data[i].total_price.v[1]
                  >= call[Owner].all_offers_data[i].price.v[1]
          /\ call[Owner].all_offers_data[i].shipping_cost
                 \in {Absent, Float(0)} =>
                call[Owner].all_offers_data[i].total_price
                  = call[Owner].all_offers_data[i].price

\* C14 witness: an offer with a price and a shipping cost above zero, its
\* total above its price.
C14_ShippingCharged ==
    \E i \in 1..Len(call[Owner].all_offers_data) :
       /\ call[Owner].all_offers_data[i].price.k = "num"
       /\ call[Owner].all_offers_data[i].shipping_cost.k = "num"
       /\ call[Owner].all_offers_data[i].shipping_cost.v[1] > 0
       /\ call[Owner].all_offers_data[i].total_price.v[1]
             > call[Owner].all_offers_data[i].price.v[1]

\* The offer divs of the unfiltered listing that the call of thread c
\* parsed, and the delivery text of a div.
DivsRead(c) ==
    IF call[c].all_offers_html.k = "str"
      THEN call[c].all_offers_html.v[1].divs ELSE <<>>
TextOf(offer_div) == offer_div.delivery.delivery_text.v

\* parse_delivery_days gave the tuple to the i-th offer of the call of c.
OfferHasDays(c, i, days) ==
    /\ ParseDeliveryDays(TextOf(DivsRead(c)[i]), env.today) = days
    /\ Len(call[c].all_offers_data) = Len(DivsRead(c))
    /\ call[c].all_offers_data[i].earliest_days = days.earliest_days
    /\ call[c].all_offers_data[i].latest_days = days.latest_days
    /\ call[c].all_offers_data[i].delivery_time_range = days.time_range

\* The spans of a text.
Spans(txt) == {SubSeq(txt, a, b) : a \in 1..Len(txt), b \in 1..Len(txt)}

\* C15 as stated: a text containing 'tomorrow' yields (1, 1, time_range),
\* whatever else it contains.
C15_TomorrowIsOne ==
    \A i \in 1..Len(DivsRead(Owner)) :
       HasLower(TextOf(DivsRead(Owner)[i]), "tomorrow") =>
          \E tr \in {None} \cup {Str(sp) : sp \in Spans(TextOf(DivsRead(Owner)[i]))} :
             OfferHasDays(Owner, i, DeliveryDays(PyInt(1), PyInt(1), tr))

\* C15: parse_delivery_days resolves relative keywords before dates: a text
\* containing 'overnight' or 'today' (any case) yields (0, 0, time_range); a
\* text containing 'tomorrow' and neither of the two yields
\* (1, 1, time_range); time_range is a clock range of the text or None;
\* 'Tomorrow' gives (1, 1, None) and 'Overnight 7 AM - 11 AM' gives
\* (0, 0, '7 AM - 11 AM').
C15_KeywordsBeforeDates ==
    \A i \in 1..Len(DivsRead(Owner)) :
       /\ HasLower(TextOf(DivsRead(Owner)[i]), "overnight")
            \/ HasLower(TextOf(DivsRead(Owner)[i]), "today") =>
             \E tr \in {None} \cup {Str(sp) : sp \in Spans(TextOf(DivsRead(Owner)[i]))} :
                OfferHasDays(Owner, i, DeliveryDays(PyInt(0), PyInt(0), tr))
       /\ (/\ HasLower(TextOf(DivsRead(Owner)[i]), "tomorrow")
           /\ ~HasLower(TextOf(DivsRead(Owner)[i]), "overnight")
           /\ ~HasLower(TextOf(DivsRead(Owner)[i]), "today")) =>
             \E tr \in {None} \cup {Str(sp) : sp \in Spans(TextOf(DivsRead(Owner)[i]))} :
                OfferHasDays(Owner, i, DeliveryDays(PyInt(1), PyInt(1), tr))
       /\ TextOf(DivsRead(Owner)[i]) = <<Word("Tomorrow")>> =>
             OfferHasDays(Owner, i, DeliveryDays(PyInt(1), PyInt(1), None))
       /\ TextOf(DivsRead(Owner)[i])
             = <<Word("Overnight"), Number(7), Word("AM"), Word("-"),
                 Number(11), Word("AM")>> =>
             OfferHasDays(Owner, i,
                DeliveryDays(PyInt(0), PyInt(0),
                   Str(<<Number(7), Word("AM"), Word("-"), Number(11),
                         Word("AM")>>)))

\* C15 witness: the text 'Overnight 7 AM - 11 AM' was parsed into an offer
\* of 0 to 0 days with a time range.
C15_OvernightWithRange ==
    /\ Len(DivsRead(Owner)) = 1
    /\ TextOf(DivsRead(Owner)[1])
          = <<Word("Overnight"), Number(7), Word("AM"), Word("-"),
              Number(11), Word("AM")>>
    /\ Len(call[Owner].all_offers_data) = 1
    /\ call[Owner].all_offers_data[1].earliest_days = PyInt(0)
    /\ call[Owner].all_offers_data[1].delivery_time_range.k = "str"

\* The months a text names, in the order of the text.
DocumentMonths(txt) ==
    LET named == SelectSeq(txt, LAMBDA tok : tok.t = "word" /\ tok.w \in MonthNames)
    IN [i \in 1..Len(named) |-> named[i].w]

\* The date of a month and a day, its year resolved against today.
Resolved(name, day, today) ==
    Date(YearOf(MonthNum(name), today), MonthNum(name), day)

\* C16: for a delivery text with two day numbers and two month names, the
\* first date has the month mentioned first in the text and the second date
\* the month mentioned second in the text, for every pair of months and
\* every current date, each date resolving its year on its own.
C16_MonthsInDocumentOrder ==
    \A i \in 1..Len(DivsRead(Owner)) :
       (/\ Len(DocumentMonths(TextOf(DivsRead(Owner)[i]))) = 2
        /\ Len(DayNumbers(TextOf(DivsRead(Owner)[i]))) = 2
        /\ KeywordDays(TextOf(DivsRead(Owner)[i])) = None
        /\ ValidDate(Resolved(DocumentMonths(TextOf(DivsRead(Owner)[i]))[1],
                              DayNumbers(TextOf(DivsRead(Owner)[i]))[1],
                              env.today))
        /\ ValidDate(Resolved(DocumentMonths(TextOf(DivsRead(Owner)[i]))[2],
                              DayNumbers(TextOf(DivsRead(Owner)[i]))[2],
                              env.today))) =>
          ParseDeliveryDays(TextOf(DivsRead(Owner)[i]), env.today)
            = DeliveryDays(
                 PyInt(DaysUntil(
                    Resolved(DocumentMonths(TextOf(DivsRead(Owner)[i]))[1],
                             DayNumbers(TextOf(DivsRead(Owner)[i]))[1],
                             env.today), env.today)),
                 PyInt(DaysUntil(
                    Resolved(DocumentMonths(TextOf(DivsRead(Owner)[i]))[2],
                             DayNumbers(TextOf(DivsRead(Owner)[i]))[2],
                             env.today), env.today)),
                 None)

\* C17: parse_delivery_days never raises: for every text, one that names a
\* month with a day number the month lacks included, it returns a day range
\* or (None, None, None).
C17_ParseNeverRaises ==
    \A i \in 1..Len(DivsRead(Owner)) :
       /\ ParseDeliveryDays(TextOf(DivsRead(Owner)[i]), env.today).k = "tuple"
       /\ Len(call[Owner].all_offers_data) = Len(DivsRead(Owner))

\* The leaves of a record with their underscore-joined path keys, in the
\* order flatten_json visits them: the scalars in dicts, in lists of dicts
\* and in lists of scalars.
PathKey(path, name) == IF path = <<>> THEN name ELSE path \o <<"_">> \o name
RECURSIVE Leaves(_, _)
RECURSIVE LeavesOfPairs(_, _)
RECURSIVE LeavesOfItems(_, _, _)
Leaves(val, path) ==
    IF val.k = "dict" THEN LeavesOfPairs(val.v, path)
    ELSE IF val.k = "list" THEN LeavesOfItems(val.v, path, 1)
    ELSE << <<path, val>> >>
LeavesOfPairs(pairs, path) ==
    IF pairs = <<>> THEN <<>>
    ELSE Leaves(Head(pairs)[2], PathKey(path, Head(pairs)[1]))
           \o LeavesOfPairs(Tail(pairs), path)
LeavesOfItems(elems, path, n) ==
    IF n > Len(elems) THEN <<>>
    ELSE Leaves(elems[n], PathKey(path, <<Digits[n + 1]>>))
           \o LeavesOfItems(elems, path, n + 1)

\* The cells of the row that hold the key.
CellsOf(row, key) == {n \in 1..Len(row) : row[n][1] = key}

\* The row holds every leaf of the record: each non-null leaf has exactly
\* one cell, under its path key and holding its value, every cell is a
\* leaf, and no two non-null leaves have the same key.
LosesNoData(record, row) ==
    /\ \A n \in 1..Len(Leaves(record, <<>>)) :
          Leaves(record, <<>>)[n][2] # None =>
             /\ Cardinality(CellsOf(row, Leaves(record, <<>>)[n][1])) = 1
             /\ \A c \in CellsOf(row, Leaves(record, <<>>)[n][1]) :
                   row[c] = Leaves(record, <<>>)[n]
    /\ \A c \in 1..Len(row) :
          \E n \in 1..Len(Leaves(record, <<>>)) : Leaves(record, <<>>)[n] = row[c]
    /\ \A n, o \in 1..Len(Leaves(record, <<>>)) :
          (/\ n # o
           /\ Leaves(record, <<>>)[n][2] # None
           /\ Leaves(record, <<>>)[o][2] # None) =>
             Leaves(record, <<>>)[n][1] # Leaves(record, <<>>)[o][1]

\* C19: flatten_json loses no data: for every nested record the flattened
\* row has exactly one cell per non-null leaf value, each cell holds that
\* leaf's value under the underscore-joined path key, and two distinct
\* leaves never map to the same key.
C19_FlattenLosesNoData ==
    batch.csv_data.k = "dict" => LosesNoData(batch.result, batch.csv_data.v)

\* The identifier a row of the combined CSV is about.
RowAsin(row) == GetKey(row, <<"asin">>)

\* The identifiers of the command line that are not empty.
ValidArgs == {batch.args[n] : n \in 1..Len(batch.args)} \ {""}

\* C18: batch isolation.  A failure of process_asin for one identifier
\* never stops the loop of main: when main ends, every identifier of the
\* de-duplicated set was attempted exactly once, the successes and the
\* failures add up to the number of identifiers, and the combined CSV has
\* exactly one row per successful identifier.
C18_BatchIsolation ==
    /\ \A n, o \in 1..Len(batch.attempts) :
          n # o => batch.attempts[n] # batch.attempts[o]
    /\ batch.success_count <= Len(batch.attempts)
    /\ Len(batch.combined_csv_data) = batch.success_count
    /\ \A n, o \in 1..Len(batch.combined_csv_data) :
          /\ \E a \in 1..Len(batch.attempts) :
                RowAsin(batch.combined_csv_data[n]) = Str(<<batch.attempts[a]>>)
          /\ n # o => RowAsin(batch.combined_csv_data[n])
                        # RowAsin(batch.combined_csv_data[o])
    /\ batch.at = "end" =>
          /\ {batch.attempts[n] : n \in 1..Len(batch.attempts)} = ValidArgs
          /\ Len(batch.attempts) = Cardinality(ValidArgs)
          /\ batch.success_count + (Len(batch.all_asins) - batch.success_count)
                = Cardinality(ValidArgs)

\* C18 witness: main ended after two identifiers, the first of which
\* failed and the second of which succeeded and has the one row.
C18_FailureThenSuccess ==
    /\ batch.at = "end"
    /\ Len(batch.attempts) = 2
    /\ batch.success_count = 1
    /\ Len(batch.combined_csv_data) = 1
    /\ RowAsin(batch.combined_csv_data[1]) = Str(<<batch.attempts[2]>>)

\* The proxy strings of the well-formed entries of proxies.txt.
EntryProxies ==
    IF env.proxies_txt.k = "None" THEN {}
    ELSE {ProxyUrl(env.proxies_txt.v[n]) :
            n \in {o \in 1..Len(env.proxies_txt.v) : Len(env.proxies_txt.v[o]) = 4}}

\* C20: when proxying is enabled and proxies.txt has at least one non-blank
\* line, the constructed scraper has a proxy (self.proxy is not None) taken
\* from one entry of the list, and every session it creates uses that
\* proxy.
C20_ProxyAssigned ==
    (/\ env.allow_proxy
     /\ env.proxies_txt.k = "str"
     /\ NonBlank(env.proxies_txt.v) # <<>>) =>
       /\ scrapers[held[Owner]].proxy # None
       /\ scrapers[held[Owner]].proxy \in EntryProxies
       /\ scrapers[held[Owner]].session # 0 =>
             scrapers[held[Owner]].session_proxies = scrapers[held[Owner]].proxy

\* The scraper the owner holds, and the locals of its call.
Mine == scrapers[held[Owner]]
MyCall == call[Owner]

\* C22: once self.product_details holds a non-empty result, no step of the
\* instance (a retry, a later get_product_data call) changes it, and no
\* later product page request calls parse_product_details.
C22_DetailsParsedOnce ==
    [][Truthy(Mine.product_details) =>
         /\ Mine'.product_details = Mine.product_details
         /\ MyCall'.parsed => MyCall.parsed]_vars

\* C22 witness: the details of B1 are held, and a later call for B2 got its
\* product page with success.
C22_LaterPageFetched ==
    /\ Mine.product_details = Dict(<<"B1">>)
    /\ MyCall.asin = "B2"
    /\ MyCall.html.k = "str"
    /\ \E n \in 1..Len(MyCall.reqs) : MyCall.reqs[n].kind = "page"

\* The requests of the owner's call that are of one of the kinds.
MyRequests(kinds) ==
    {n \in 1..Len(MyCall.reqs) : MyCall.reqs[n].kind \in kinds}

\* C23: the modal request of a call carries as its anti-csrftoken-a2z
\* header the token extracted from the product page response of the same
\* call.
C23_ModalCarriesPageToken ==
    \A n \in MyRequests({"modal"}) :
       /\ MyCall.html.k = "str"
       /\ Truthy(MyCall.reqs[n].csrf)
       /\ MyCall.reqs[n].csrf = ExtractCsrfToken(MyCall.html.v)

\* C23 witness: the scraper held another token when the call began, left by
\* its initialization or by an earlier call, and the modal request was sent.
C23_LeftoverTokenReplaced ==
    /\ Truthy(MyCall.token_before)
    /\ \E n \in MyRequests({"modal"}) :
          MyCall.reqs[n].csrf # MyCall.token_before

\* C24: every offers request of a call, unfiltered or filtered, carries the
\* second token, the one extracted from the modal response of the call.
C24_OffersCarrySecondToken ==
    \A n \in MyRequests({"offers", "prime"}) :
       MyCall.reqs[n].csrf = MyCall.csrf_token2

\* C28: the product_details of every record a call returns were parsed
\* from the product page fetched for the asin of that record.
C28_DetailsOfOwnAsin ==
    MyCall.result.k = "dict" =>
       MyCall.result.product_details \in
          {Dict(<<MyCall.result.asin>>), Dict(<<>>)}

\* The text without its clock range (the leftmost match of the time range
\* pattern).
ClockStart(txt) ==
    CHOOSE i \in 1..Len(txt) :
       AfterRange(txt, i) # 0 /\ \A j \in 1..(i - 1) : AfterRange(txt, j) = 0
WithoutClock(txt) ==
    IF TimeRange(txt) = None THEN txt
    ELSE SubSeq(txt, 1, ClockStart(txt) - 1)
           \o SubSeq(txt, AfterRange(txt, ClockStart(txt)), Len(txt))

\* A text of one month, one day number that the month has, and a clock
\* range.
ClockedSingleDate(txt, today) ==
    /\ TimeRange(txt) # None
    /\ KeywordDays(txt) = None
    /\ Len(DocumentMonths(txt)) = 1
    /\ Len(DayNumbers(WithoutClock(txt))) = 1
    /\ ValidDate(Resolved(DocumentMonths(txt)[1],
                          DayNumbers(WithoutClock(txt))[1], today))

\* C26: for a delivery text with one month and one day number, a clock
\* range in the text changes only the time_range returned: earliest_days
\* and latest_days are those of the text without the clock range, and
\* equal.
C26_ClockRangeIndependent ==
    \A i \in 1..Len(DivsRead(Owner)) :
       ClockedSingleDate(TextOf(DivsRead(Owner)[i]), env.today) =>
          /\ OfferHasDays(Owner, i,
                [ParseDeliveryDays(WithoutClock(TextOf(DivsRead(Owner)[i])),
                                   env.today)
                   EXCEPT !.time_range = TimeRange(TextOf(DivsRead(Owner)[i]))])
          /\ call[Owner].all_offers_data[i].earliest_days
                = call[Owner].all_offers_data[i].latest_days

\* A date range written in chronological order: one month with two day
\* numbers that do not decrease, or two months of which the first written
\* comes first in the year.
Chronological(txt) ==
    /\ Len(DayNumbers(txt)) = 2
    /\ \/ /\ Len(DocumentMonths(txt)) = 1
          /\ DayNumbers(txt)[1] <= DayNumbers(txt)[2]
       \/ /\ Len(DocumentMonths(txt)) = 2
          /\ MonthNum(DocumentMonths(txt)[1]) < MonthNum(DocumentMonths(txt)[2])

\* C29: whenever parse_delivery_days returns a day range for a text with a
\* date range written in chronological order, earliest_days <= latest_days,
\* on every current date.
C29_EarliestBeforeLatest ==
    \A i \in 1..Len(DivsRead(Owner)) :
       (/\ Chronological(TextOf(DivsRead(Owner)[i]))
        /\ ParseDeliveryDays(TextOf(DivsRead(Owner)[i]), env.today).k = "tuple"
        /\ Len(call[Owner].all_offers_data) = Len(DivsRead(Owner))
        /\ call[Owner].all_offers_data[i].earliest_days.k = "int") =>
          call[Owner].all_offers_data[i].earliest_days.v[1]
             <= call[Owner].all_offers_data[i].latest_days.v[1]

\* The offers of a list whose seller identifier is unresolved (None).
Unresolved(offers) == {i \in 1..Len(offers) : offers[i].seller_id = "None"}

\* C25: offers without a resolvable seller identifier are distinct entries
\* in the merge: an offer of the unfiltered listing whose seller_id is None
\* is not marked prime because another offer without seller_id is in the
\* filtered listing, so no more such offers are marked than the filtered
\* listing holds.
C25_UnresolvedSellersDistinct ==
    Done(Owner) /\ call[Owner].result.k = "dict" =>
       Cardinality({i \in Unresolved(call[Owner].result.offers_data) :
                       call[Owner].result.offers_data[i].prime})
         <= Cardinality(Unresolved(call[Owner].prime_offers_data))

\* C21: the extractors of parse_product_details are isolated: whatever
\* another extractor finds or fails on, centerCol missing included, the
\* review histogram, the information tables, the A+ content and the brand
\* story are in the result whenever their markup is present.
C21_ExtractorsIsolated ==
    (batch.at = "parsed" /\ batch.html_content.parseable) =>
       \A s \in Range(SectionExtractors) :
          Yields(batch.html_content, s) =>
             \E n \in 1..Len(batch.product_details.v) :
                batch.product_details.v[n][1] = s

\* C27: after __init__ no step changes self.proxy, and the session object
\* the scraper holds, whichever it created, is configured with that proxy
\* (with none when self.proxy is None).
C27_ProxyImmutable ==
    /\ [](Mine.session # 0 => Mine.session_proxies = Mine.proxy)
    /\ [][Mine'.proxy = Mine.proxy]_vars

\* C27 witness: a scraper with a proxy created a second session object
\* after a request of its call failed, and that session has the proxy.
C27_SecondSessionProxied ==
    /\ Mine.proxy # None
    /\ Mine.session >= 2
    /\ Mine.session_proxies = Mine.proxy
    /\ MyCall.failed # "none"

\* C30: every scraper in the idle queue of the pool has completed its
\* handshake, and the scraper get_session gave a thread has too (when it
\* gave one and not None).
C30_PoolReady ==
    /\ \A n \in 1..Len(sessions) : scrapers[sessions[n]].is_initialized
    /\ \A c \in Callers :
          (pc[c] = "holding" /\ held[c] # 0) => scrapers[held[c]].is_initialized

\* C30 witness: some handshake of initialize_pool failed, the queue holds a
\* scraper and get_session gave a thread another one from the queue.
C30_SomeHandshakeFailed ==
    /\ init_count = PoolSize
    /\ made < init_count
    /\ sessions # <<>>
    /\ \E c \in Callers :
          pc[c] = "holding" /\ held[c] # 0 /\ via[c] = "queue"

====
